---- MODULE Spec2Model ----
(***************************************************************************)
(* State-machine model of the live-session WebSocket proxy:                *)
(*   server/main.py         websocket_endpoint, receive_from_client,       *)
(*                          run_session                                    *)
(*   server/gemini_live.py  GeminiLive.start_session and its three tasks   *)
(*   server/auth.py         verify_ws_token / verify_firebase_token        *)
(* One client connection is followed from the authentication step to the   *)
(* return of the endpoint coroutine.  Every action is one run of a         *)
(* coroutine between two suspension points (await).                        *)
(***************************************************************************)
EXTENDS Integers, Sequences, FiniteSets, TLC

\* ------------------------------------------------------------------------
\* Bounds of the model
\* ------------------------------------------------------------------------
\* frames the client sends over the connection, the first one included
MaxFrames == 2
\* frames sent by the client and not yet read by the server
MaxInbox == 2
\* deliveries of the upstream session: messages and ends of its stream
MaxUpstream == 1
\* frames the client sends after its setup, in the streaming model
MaxStream == 2
\* frames each client sends, in the model of two concurrent connections
MaxPair == 1
\* tool blocks of a setup's tools list, and function declarations of a
\* block, in the model of the configuration translation
MaxBlocks == 2
MaxDecls == 2
\* calls of each caller of the certificate cache, and hours that pass, in
\* the model of the certificate cache
MaxCalls == 2
MaxHours == 1

\* ------------------------------------------------------------------------
\* Program constants
\* ------------------------------------------------------------------------
AUTH_CLOSE_CODE == 4001
SETUP_CLOSE_CODE == 4000
NORMAL_CLOSE_CODE == 1000
INPUT_SAMPLE_RATE == 16000
CERT_CACHE_TTL == 3600

VARIABLES
    hpc,            \* position of websocket_endpoint
    wsState,        \* server side of the client transport
    closeCode,      \* code of the close frame the server sent, 0 if none
    clientGone,     \* the client has disconnected
    inbox,          \* client frames in the transport, not yet received
    framesSent,     \* number of frames the client has sent
    authResult,     \* what verify_ws_token did: "claims", "ValueError", ...
    setupResult,    \* how the setup step ended
    framesRead,     \* number of frames the server has received
    setupReads,     \* number of receive_text() calls of the setup step
    firstFrame,     \* the frame the setup step received, NoFrame if none
    setup_config,   \* name of the setup object, "None" if there is none
    audio_input_queue,
    text_input_queue,
    ipc,            \* receive_from_client task (ingress pump)
    spc,            \* run_session coroutine with the start_session generator
    agen,           \* the start_session async generator object
    curEvent,       \* event run_session is writing to the client
    config,         \* LiveConnectConfig handed to connect()
    connectAttempts,
    upstream,       \* upstream session handle
    releases,       \* number of times the upstream handle was released
    event_queue,
    apc,            \* send_audio task (audio-forward pump)
    tpc,            \* send_text task (control-forward pump)
    rpc,            \* receive_loop task (receive pump)
    upMsgs,         \* deliveries of the upstream session: messages and
                    \* ends of its stream
    upLog,          \* what the upstream session has delivered, in order
    upCalls,        \* calls made on the upstream session, in order
    msg,            \* send_text: the message it dequeued last (a local:
                    \* NoItem once the task has ended)
    receiveCalls,   \* receive_loop: number of session.receive() calls
    sent,           \* frames written to the client, in order
    deadline,       \* the wait_for timer around run_session
    tlAttempts,     \* send attempts of the time-limit error frame
    closeCalls,     \* calls of websocket.close()
    sessions,       \* two further invocations of websocket_endpoint, each
                    \* with its locals (model of concurrent connections)
    tool_config,    \* start_session: the value of setup_config["tools"]
    config_args,    \* start_session: the arguments of LiveConnectConfig
    cfgpc,          \* start_session: position in the translation
    certs,          \* auth.py _certs: 0 is {}, n the result of fetch n
    certs_expiry,   \* auth.py _certs_expiry
    cert_lock,      \* auth.py _cert_lock: its holder, "free" if none
    clock,          \* time.time()
    fetches,        \* urlopen calls of _fetch_google_certs so far
    cpc,            \* position of each caller in _fetch_google_certs
    result,         \* what the call of each caller returned last
    callsMade       \* calls each caller has ended

clientVars == <<clientGone, inbox, framesSent>>
gateVars == <<authResult, setupResult, framesRead, setupReads, firstFrame,
             setup_config>>
queueVars == <<audio_input_queue, text_input_queue>>
genVars == <<spc, agen, curEvent, config, connectAttempts>>
upVars == <<upstream, releases, event_queue, apc, tpc, rpc, upMsgs, upLog, upCalls,
            msg, receiveCalls>>
wsVars == <<wsState, closeCode, closeCalls, sent>>
timerVars == <<deadline, tlAttempts>>

connVars == <<hpc, ipc, clientVars, gateVars, queueVars, genVars, upVars,
              wsVars, timerVars>>

cfgVars == <<tool_config, config_args, cfgpc>>

certVars == <<certs, certs_expiry, cert_lock, clock, fetches, cpc, result,
              callsMade>>

vars == <<connVars, sessions, cfgVars, certVars>>

\* ------------------------------------------------------------------------
\* Identity tokens (auth.py)
\* ------------------------------------------------------------------------
Tokens == {"missing", "malformed_header", "unknown_kid", "expired",
           "wrong_audience", "wrong_issuer", "bad_signature", "empty_sub",
           "valid"}

\* verify_firebase_token: every failed check raises ValueError
verify_firebase_token(tok) ==
    CASE tok = "malformed_header" -> "ValueError"
      [] tok = "unknown_kid"      -> "ValueError"
      [] tok = "expired"          -> "ValueError"
      [] tok = "wrong_audience"   -> "ValueError"
      [] tok = "wrong_issuer"     -> "ValueError"
      [] tok = "bad_signature"    -> "ValueError"
      [] tok = "empty_sub"        -> "ValueError"
      [] OTHER                    -> "claims"

\* verify_ws_token: no token in the query string nor in the header
verify_ws_token(tok) ==
    IF tok = "missing" THEN "ValueError" ELSE verify_firebase_token(tok)

\* ------------------------------------------------------------------------
\* Client frames.  A frame is a record of one shape:
\*   kind  "bytes" | "text"
\*   json  what json.loads makes of a text frame:
\*         "malformed" (raises JSONDecodeError), "scalar" (null, 5, true),
\*         "string", "list", "object"
\*   key   the top-level key of an object: "setup", "clientContent",
\*         "toolResponse", "other"
\*   val   the value under that key: "dict" or "scalar"; for "setup" the
\*         name of the setup object
\*   arg   clientContent: "final" (turnComplete true) | "partial";
\*         toolResponse: the shape of functionResponses
\*   id    the position of the frame among the frames the client sent
\* ------------------------------------------------------------------------
NoFrame == [kind |-> "none", json |-> "na", key |-> "na", val |-> "na",
            arg |-> "na", id |-> 0]

BytesFrame(n) == [kind |-> "bytes", json |-> "na", key |-> "na",
                  val |-> "na", arg |-> "na", id |-> n]

TextFrame(j, k, v, a, n) == [kind |-> "text", json |-> j, key |-> k,
                             val |-> v, arg |-> a, id |-> n]

\* names of the setup objects a client may send (SetupObject gives each)
SetupNames == {"transcribe", "bad_compression"}

\* the frames a client may send as its n-th frame.  The first frame is
\* the one the setup step reads; a later "setup" object is one more object
\* without a recognized key, and is left out
ClientFrames(n) ==
    IF n = 1
    THEN {TextFrame("object", "setup", s, "na", n) : s \in SetupNames}
         \cup {TextFrame("object", "other", "dict", "na", n),
               TextFrame("malformed", "na", "na", "na", n),
               TextFrame("scalar", "na", "na", "na", n),
               BytesFrame(n)}
    ELSE {BytesFrame(n),
          TextFrame("object", "clientContent", "dict", "final", n),
          TextFrame("object", "toolResponse", "dict", "dict", n),
          TextFrame("object", "other", "dict", "na", n),
          TextFrame("malformed", "na", "na", "na", n),
          TextFrame("scalar", "na", "na", "na", n)}

\* the frames a client streams as its n-th frame once the session is
\* Active: audio, content turns and tool responses of both shapes
StreamFrames(n) ==
    {BytesFrame(n),
     TextFrame("object", "clientContent", "dict", "final", n),
     TextFrame("object", "clientContent", "dict", "partial", n),
     TextFrame("object", "toolResponse", "dict", "dict", n),
     TextFrame("object", "toolResponse", "dict", "list1", n)}

\* `key in payload` of Python for the parsed text of frame f:
\* "TypeError" for a scalar, else whether the key is there
Contains(f, k) ==
    CASE f.json = "scalar" -> "TypeError"
      [] f.json = "object" -> IF f.key = k THEN "yes" ELSE "no"
      [] OTHER             -> "no"

\* ------------------------------------------------------------------------
\* 1. Setup step of websocket_endpoint: receive_text(), json.loads, the
\*    "setup" key.  Result: "invalid" (an exception: close 4000), "None"
\*    (no "setup" key: setup_config stays None) or the setup's name.
\* ------------------------------------------------------------------------
ParseSetup(f) ==
    IF f.kind # "text" THEN "invalid"             \* receive_text: KeyError
    ELSE IF f.json = "malformed" THEN "invalid"   \* json.loads raises
    ELSE IF Contains(f, "setup") = "TypeError" THEN "invalid"
    ELSE IF Contains(f, "setup") = "yes" THEN f.val
    ELSE "None"

\* ------------------------------------------------------------------------
\* 2. Configuration translation (start_session, before connect).
\*    A setup object gives each recognized key a shape:
\*      rm     responseModalities:  "absent" | "list" | "not_iterable"
\*      si     systemInstruction:   "absent" | "str" | "dict_ok" |
\*                                  "dict_malformed" | "other"
\*      tools  "absent" | "not_list" | "list", with its blocks: each
\*             "fds" (functionDeclarations, fd names in block.fds),
\*             "no_fds" (a dict without the key), "scalar" (`in` raises)
\*             or "bad_fd" (a declaration that is no dict: .get raises)
\*      cwc    contextWindowCompression: "absent" | "sliding" |
\*             "dict_other" | "scalar"
\*      outT, inT   output/inputAudioTranscription present
\*      speech speechConfig: "absent" | "voice" | "path_absent" | "scalar"
\* ------------------------------------------------------------------------
Block(t, fds) == [t |-> t, fds |-> fds]

SetupRecord(rm, si, tl, blocks, cwc, outT, inT, speech) ==
    [rm |-> rm, si |-> si, tools |-> tl, blocks |-> blocks, cwc |-> cwc,
     outT |-> outT, inT |-> inT, speech |-> speech]

\* the setup objects of SetupNames
SetupObject(name) ==
    CASE name = "transcribe" ->
            \* {"outputAudioTranscription": {}}
            SetupRecord("absent", "absent", "absent", <<>>, "absent",
                        TRUE, FALSE, "absent")
      [] name = "bad_compression" ->
            \* {"outputAudioTranscription": {},
            \*  "contextWindowCompression": null}
            SetupRecord("absent", "absent", "absent", <<>>, "scalar",
                        TRUE, FALSE, "absent")

\* config_args as built at line 48: audio only
DefaultConfig ==
    [raised |-> FALSE, modalities |-> "AUDIO", system_instruction |-> FALSE,
     tools |-> <<>>, compression |-> FALSE, outT |-> FALSE, inT |-> FALSE,
     voice |-> FALSE]

Raised(c) == [c EXCEPT !.raised = TRUE]

\* lines 56-59: the list comprehension is not guarded
TranslateModalities(c, s) ==
    CASE s.rm = "absent"       -> c
      [] s.rm = "list"         -> [c EXCEPT !.modalities = "custom"]
      [] s.rm = "not_iterable" -> Raised(c)

\* lines 62-76: str, or {parts: [{text}]} under try/except
TranslateSystemInstruction(c, s) ==
    CASE s.si = "str"     -> [c EXCEPT !.system_instruction = TRUE]
      [] s.si = "dict_ok" -> [c EXCEPT !.system_instruction = TRUE]
      [] OTHER            -> c

\* lines 83-96: each block with functionDeclarations ASSIGNS
\* config_args["tools"]; an exception ends the loop (caught at 97)
RECURSIVE ToolBlocks(_, _)
ToolBlocks(cur, blocks) ==
    IF blocks = <<>> THEN cur
    ELSE LET b == Head(blocks) IN
         CASE b.t = "scalar" -> cur
           [] b.t = "bad_fd" -> cur
           [] b.t = "no_fds" -> ToolBlocks(cur, Tail(blocks))
           [] b.t = "fds"    -> ToolBlocks(b.fds, Tail(blocks))

\* lines 79-98
TranslateTools(c, s) ==
    IF s.tools = "list"
    THEN [c EXCEPT !.tools = ToolBlocks(c.tools, s.blocks)]
    ELSE c

\* lines 101-108: `"slidingWindow" in cwc` is not guarded
TranslateCompression(c, s) ==
    CASE s.cwc = "absent"     -> c
      [] s.cwc = "sliding"    -> [c EXCEPT !.compression = TRUE]
      [] s.cwc = "dict_other" -> c
      [] s.cwc = "scalar"     -> Raised(c)

\* lines 111-120
TranslateTranscription(c, s) ==
    [c EXCEPT !.outT = s.outT, !.inT = s.inT]

\* lines 123-136: KeyError and TypeError are caught
TranslateSpeech(c, s) ==
    IF s.speech = "voice" THEN [c EXCEPT !.voice = TRUE] ELSE c

\* lines 48-138: the sections run in order; an exception that is not
\* caught leaves start_session before connect()
TranslateSetup(s) ==
    LET c1 == TranslateModalities(DefaultConfig, s) IN
    IF c1.raised THEN c1 ELSE
    LET c2 == TranslateTools(TranslateSystemInstruction(c1, s), s)
        c3 == TranslateCompression(c2, s) IN
    IF c3.raised THEN c3 ELSE
    TranslateSpeech(TranslateTranscription(c3, s), s)

\* `if setup_config:` at line 52: None keeps the defaults
TranslateConfig(name) ==
    IF name = "None" THEN DefaultConfig ELSE TranslateSetup(SetupObject(name))

\* ------------------------------------------------------------------------
\* 3. receive_from_client: what one received frame makes the pump do.
\*    act: "audio" (put on audio_input_queue), "text" (put item on
\*    text_input_queue), "drop" (next receive) or "raise" (an exception
\*    other than JSONDecodeError: caught at line 181, the pump returns).
\* ------------------------------------------------------------------------
ControlItem(type, turns, turnComplete, fr) ==
    [type |-> type, turns |-> turns, turnComplete |-> turnComplete,
     fr |-> fr]

\* a functionResponses value: its shape, "None" (the key is absent),
\* "dict", "list" or "scalar", and the response objects it holds
Responses(shape, items) == [shape |-> shape, items |-> items]

NoResponses == Responses("na", <<>>)

\* a response object {"name", "id", "response"} answering call n
ResponseObject(n, response) ==
    [name |-> "tool", id |-> n, response |-> response]

\* payload["toolResponse"].get("functionResponses") of frame f
FunctionResponsesOf(f) ==
    CASE f.arg = "absent" -> Responses("None", <<>>)
      [] f.arg = "dict"   ->
            Responses("dict", <<ResponseObject(f.id, "absent")>>)
      [] f.arg = "list1"  ->
            Responses("list", <<ResponseObject(f.id, "absent")>>)
      [] OTHER            -> Responses("scalar", <<>>)

NoItem == ControlItem("none", 0, FALSE, NoResponses)

Outcome(act, item) == [act |-> act, item |-> item]

IngressOutcome(f) ==
    IF f.kind = "bytes" THEN Outcome("audio", NoItem)
    ELSE IF f.json = "malformed" THEN Outcome("drop", NoItem)
    ELSE IF Contains(f, "clientContent") = "TypeError"
         THEN Outcome("raise", NoItem)
    ELSE IF Contains(f, "clientContent") = "yes"
         THEN IF f.val = "dict"
              THEN Outcome("text", ControlItem("client_content", f.id,
                                               f.arg = "final",
                                               NoResponses))
              ELSE Outcome("raise", NoItem)      \* .get: AttributeError
    ELSE IF Contains(f, "toolResponse") = "yes"
         THEN IF f.val = "dict"
              THEN Outcome("text", ControlItem("tool_response", 0, FALSE,
                                               FunctionResponsesOf(f)))
              ELSE Outcome("raise", NoItem)      \* .get: AttributeError
    ELSE IF f.json = "object" THEN Outcome("drop", NoItem)
    ELSE Outcome("raise", NoItem)         \* payload.keys(): AttributeError

\* ------------------------------------------------------------------------
\* 4. Calls on the upstream session
\* ------------------------------------------------------------------------
UpCall(call, data, flag, n) ==
    [call |-> call, data |-> data, flag |-> flag, n |-> n]

\* send_audio, lines 152-158
AudioCall(chunk) ==
    UpCall("send_realtime_input", chunk, FALSE, INPUT_SAMPLE_RATE)

NoCall == UpCall("none", 0, FALSE, 0)

\* types.FunctionResponse(name, id, response) of lines 185-191: an absent
\* response becomes {"result": "ok"}
FunctionResponse(r) ==
    [name |-> r.name, id |-> r.id,
     response |-> IF r.response = "absent" THEN "result_ok" ELSE r.response]

\* (variant of AsList without the isinstance test of lines 180-181)
AsList_Identity(fr) == fr

\* lines 180-181: a single object becomes a one-element list
AsList(fr) == IF fr.shape = "dict" THEN Responses("list", fr.items) ELSE fr

\* lines 182-195: one FunctionResponse per element, one call.  Iterating a
\* dict gives its keys and a scalar is not iterable: r.get or `for` raises
ToolResponseStep(fr) ==
    IF fr.shape = "list"
    THEN Outcome("call",
                 UpCall("send_tool_response",
                        [i \in DOMAIN fr.items |->
                            FunctionResponse(fr.items[i])],
                        FALSE, Len(fr.items)))
    ELSE Outcome("raise", NoCall)

\* (variant of TextStep that does not pass turnComplete on: the content
\* call goes out with end_of_turn False)
TextStep_NoEndOfTurn(m) ==
    IF m.type = "client_content"
    THEN Outcome("call", UpCall("send", m.turns, FALSE, 0))
    ELSE IF m.type = "tool_response"
    THEN IF m.fr.shape = "None"
         THEN Outcome("skip", NoCall)
         ELSE ToolResponseStep(AsList(m.fr))
    ELSE Outcome("skip", NoCall)

\* send_text, lines 166-195: "call", "skip" (continue) or "raise"
TextStep(m) ==
    IF m.type = "client_content"
    THEN Outcome("call", UpCall("send", m.turns, m.turnComplete, 0))
    ELSE IF m.type = "tool_response"
    THEN IF m.fr.shape = "None"
         THEN Outcome("skip", NoCall)
         ELSE ToolResponseStep(AsList(m.fr))
    ELSE Outcome("skip", NoCall)

\* ------------------------------------------------------------------------
\* 5. Upstream messages and normalized events (receive_loop)
\* ------------------------------------------------------------------------
UpstreamMessage(audio, inT, outT, tc, intr, tool) ==
    [audio |-> audio, inT |-> inT, outT |-> outT, tc |-> tc, intr |-> intr,
     tool |-> tool]

\* the messages the upstream session delivers in this model
UpstreamMessages ==
    {UpstreamMessage(1, FALSE, TRUE, FALSE, FALSE, FALSE),
     UpstreamMessage(0, FALSE, FALSE, TRUE, FALSE, TRUE)}

\* the end of the stream of one session.receive() call: nothing to handle
EndOfStream == UpstreamMessage(0, FALSE, FALSE, FALSE, FALSE, FALSE)

\* a message with every substructure
FullMessage == UpstreamMessage(1, TRUE, TRUE, TRUE, TRUE, TRUE)

\* the messages of the streaming model: one with every substructure,
\* one with an output transcription only
StreamMessages ==
    {FullMessage, UpstreamMessage(0, FALSE, TRUE, FALSE, FALSE, FALSE)}

Event(t, d) == [t |-> t, d |-> d]

NoEvent == Event("none", 0)
SessionEnded == Event("None", 0)

RECURSIVE AudioEvents(_, _)
AudioEvents(parts, d) ==
    IF parts = 0 THEN <<>>
    ELSE <<Event("audio", d)>> \o AudioEvents(parts - 1, d)

\* (variant of EventsOf that handles tool_call before server_content)
EventsOf_ToolCallsFirst(m, d) ==
    (IF m.tool THEN <<Event("toolCall", d)>> ELSE <<>>)
    \o AudioEvents(m.audio, d)
    \o (IF m.inT THEN <<Event("inputTranscription", d)>> ELSE <<>>)
    \o (IF m.outT THEN <<Event("outputTranscription", d)>> ELSE <<>>)
    \o (IF m.tc THEN <<Event("turnComplete", 0)>> ELSE <<>>)
    \o (IF m.intr THEN <<Event("interrupted", 0)>> ELSE <<>>)

\* lines 204-272: the events of message number d, in put order
EventsOf(m, d) ==
    AudioEvents(m.audio, d)
    \o (IF m.inT THEN <<Event("inputTranscription", d)>> ELSE <<>>)
    \o (IF m.outT THEN <<Event("outputTranscription", d)>> ELSE <<>>)
    \o (IF m.tc THEN <<Event("turnComplete", 0)>> ELSE <<>>)
    \o (IF m.intr THEN <<Event("interrupted", 0)>> ELSE <<>>)
    \o (IF m.tool THEN <<Event("toolCall", d)>> ELSE <<>>)

\* ------------------------------------------------------------------------
\* 6. Frames written to the client (run_session, lines 200-215)
\* ------------------------------------------------------------------------
OutFrame(kind, body, text, d) ==
    [kind |-> kind, body |-> body, text |-> text, d |-> d]

\* (variant of ClientFrameOf that forwards the shape of a JSON event
\* without its payload)
ClientFrameOf_PayloadDropped(event) ==
    CASE event.t = "audio"          -> OutFrame("bytes", "audio", "na", event.d)
      [] event.t = "setup_complete" -> OutFrame("json", "setupComplete", "na", 0)
      [] event.t = "error"          ->
            OutFrame("json", "error", "upstream exception", 0)
      [] OTHER                      -> OutFrame("json", event.t, "na", 0)

ClientFrameOf(event) ==
    CASE event.t = "audio"          -> OutFrame("bytes", "audio", "na", event.d)
      [] event.t = "setup_complete" -> OutFrame("json", "setupComplete", "na", 0)
      [] event.t = "error"          ->
            OutFrame("json", "error", "upstream exception", 0)
      [] OTHER                      -> OutFrame("json", event.t, "na", event.d)

\* line 222
TimeLimitFrame == OutFrame("json", "error", "Session time limit reached", 0)

\* ------------------------------------------------------------------------
\* Initial state: a connection request has arrived, nothing has run
\* ------------------------------------------------------------------------
\* Concurrent connections: each invocation of websocket_endpoint creates
\* its queues (main.py 128-129) and its GeminiLive (189), whose
\* start_session creates the upstream session and the event queue
\* (gemini_live.py 140-143); the pumps are closures over these locals
\* ------------------------------------------------------------------------
Sessions == {"A", "B"}

\* the n-th frame of client s, or the n-th message of the upstream session
\* of s: odd numbers are A's, even numbers B's
Tag(s, n) == IF s = "A" THEN 2 * n - 1 ELSE 2 * n

OwnerOf(id) == IF id % 2 = 1 THEN "A" ELSE "B"

\* the locals of an invocation whose upstream session has just been
\* connected: setup_complete is on the event queue (gemini_live.py 146)
Connected ==
    [inbox |-> <<>>, framesSent |-> 0,
     audio_input_queue |-> <<>>, text_input_queue |-> <<>>,
     upCalls |-> <<>>, upLog |-> <<>>,
     event_queue |-> <<Event("setup_complete", 0)>>, sent |-> <<>>]

\* what the client of session s may send as its n-th frame
PairFrames(s, n) ==
    {BytesFrame(Tag(s, n)),
     TextFrame("object", "clientContent", "dict", "final", Tag(s, n))}

\* what the upstream session of a connection may deliver
PairMessages == {UpstreamMessage(1, FALSE, TRUE, FALSE, FALSE, FALSE)}

\* ------------------------------------------------------------------------
\* The tools section of the configuration translation on its own
\* (gemini_live.py 78-98), for tools lists of every shape
\* ------------------------------------------------------------------------
\* names of function declarations
DeclNames == {"a", "b"}

RECURSIVE SeqsUpTo(_, _)
SeqsUpTo(S, n) ==
    IF n = 0 THEN {<<>>}
    ELSE LET shorter == SeqsUpTo(S, n - 1) IN
         shorter \cup {Append(q, x) : q \in shorter, x \in S}

\* the blocks a tools list may hold
ToolBlockValues ==
    {Block("fds", fds) : fds \in SeqsUpTo(DeclNames, MaxDecls)}
    \cup {Block("no_fds", <<>>), Block("scalar", <<>>), Block("bad_fd", <<>>)}

\* the tools lists of a setup
ToolConfigs == SeqsUpTo(ToolBlockValues, MaxBlocks)

\* the setup object {"tools": tc}
ToolsSetup(tc) ==
    SetupRecord("absent", "absent", "list", tc, "absent", FALSE, FALSE,
                "absent")

\* no translation is going on
NotTranslating ==
    /\ tool_config = <<>>
    /\ config_args = DefaultConfig
    /\ cfgpc = "idle"

\* ------------------------------------------------------------------------
\* The certificate cache of auth.py (33-62): module state at import
\* ------------------------------------------------------------------------
\* threads that call _fetch_google_certs
Callers == {"t1", "t2"}

CacheEmpty ==
    /\ certs = 0
    /\ certs_expiry = 0
    /\ cert_lock = "free"
    /\ clock = 0
    /\ fetches = 0
    /\ cpc = [t \in Callers |-> "idle"]
    /\ result = [t \in Callers |-> 0]
    /\ callsMade = [t \in Callers |-> 0]

\* ------------------------------------------------------------------------
Init ==
    /\ hpc = "auth"
    /\ wsState = "connecting"
    /\ closeCode = 0
    /\ closeCalls = 0
    /\ sent = <<>>
    /\ clientGone = FALSE
    /\ inbox = <<>>
    /\ framesSent = 0
    /\ authResult = "pending"
    /\ setupResult = "pending"
    /\ framesRead = 0
    /\ setupReads = 0
    /\ firstFrame = NoFrame
    /\ setup_config = "None"
    /\ audio_input_queue = <<>>
    /\ text_input_queue = <<>>
    /\ ipc = "none"
    /\ spc = "none"
    /\ agen = "none"
    /\ curEvent = NoEvent
    /\ config = DefaultConfig
    /\ connectAttempts = 0
    /\ upstream = "none"
    /\ releases = 0
    /\ event_queue = <<>>
    /\ apc = "none"
    /\ tpc = "none"
    /\ rpc = "none"
    /\ upMsgs = 0
    /\ upLog = <<>>
    /\ upCalls = <<>>
    /\ msg = NoItem
    /\ receiveCalls = 0
    /\ deadline = "unarmed"
    /\ tlAttempts = 0
    /\ sessions = [s \in Sessions |-> Connected]
    /\ NotTranslating
    /\ CacheEmpty

\* Task.cancel(): a task that has not finished ends at its await
Cancel(task) == IF task = "running" THEN "cancelled" ELSE task

\* ------------------------------------------------------------------------
\* The client
\* ------------------------------------------------------------------------
ClientSend(f) ==
    /\ wsState = "open"
    /\ ~clientGone
    /\ framesSent < MaxFrames
    /\ Len(inbox) < MaxInbox
    /\ inbox' = Append(inbox, f)
    /\ framesSent' = framesSent + 1
    /\ UNCHANGED <<hpc, ipc, clientGone, gateVars, queueVars, genVars,
                   upVars, wsVars, timerVars>>
    /\ UNCHANGED <<sessions, cfgVars, certVars>>

ClientDisconnect ==
    /\ wsState = "open"
    /\ ~clientGone
    /\ clientGone' = TRUE
    /\ UNCHANGED <<hpc, ipc, inbox, framesSent, gateVars, queueVars, genVars,
                   upVars, wsVars, timerVars>>
    /\ UNCHANGED <<sessions, cfgVars, certVars>>

\* ------------------------------------------------------------------------
\* websocket_endpoint, step 0: authenticate (main.py 92-102)
\* ------------------------------------------------------------------------
\* (variant of AuthReject without the `return` of line 99: the close frame
\* is sent and the endpoint goes on to the setup step)
AuthReject_NoReturn(tok) ==
    /\ hpc = "auth"
    /\ verify_ws_token(tok) = "ValueError"
    /\ wsState' = "closed"
    /\ closeCode' = AUTH_CLOSE_CODE
    /\ closeCalls' = closeCalls + 1
    /\ hpc' = "await_setup"
    /\ authResult' = "ValueError"
    /\ UNCHANGED <<ipc, sent, clientVars, setupResult, framesRead, setupReads,
                   firstFrame, setup_config, queueVars, genVars, upVars,
                   timerVars>>
    /\ UNCHANGED <<sessions, cfgVars, certVars>>

\* ValueError: accept, close with 4001, return
AuthReject(tok) ==
    /\ hpc = "auth"
    /\ verify_ws_token(tok) = "ValueError"
    /\ wsState' = "closed"
    /\ closeCode' = AUTH_CLOSE_CODE
    /\ closeCalls' = closeCalls + 1
    /\ hpc' = "done"
    /\ authResult' = "ValueError"
    /\ UNCHANGED <<ipc, sent, clientVars, setupResult, framesRead, setupReads,
                   firstFrame, setup_config, queueVars, genVars, upVars,
                   timerVars>>
    /\ UNCHANGED <<sessions, cfgVars, certVars>>

\* (variant of AuthAccept that creates the ingress task of line 184 right
\* after accept, before the setup step)
AuthAccept_StartsIngress(tok) ==
    /\ hpc = "auth"
    /\ verify_ws_token(tok) = "claims"
    /\ wsState' = "open"
    /\ hpc' = "await_setup"
    /\ authResult' = "claims"
    /\ ipc' = "running"
    /\ UNCHANGED <<closeCode, closeCalls, sent, clientVars, setupResult,
                   framesRead, setupReads, firstFrame, setup_config, queueVars,
                   genVars, upVars, timerVars>>
    /\ UNCHANGED <<sessions, cfgVars, certVars>>

AuthAccept(tok) ==
    /\ hpc = "auth"
    /\ verify_ws_token(tok) = "claims"
    /\ wsState' = "open"
    /\ hpc' = "await_setup"
    /\ authResult' = "claims"
    /\ UNCHANGED <<ipc, closeCode, closeCalls, sent, clientVars, setupResult,
                   framesRead, setupReads, firstFrame, setup_config, queueVars,
                   genVars, upVars, timerVars>>
    /\ UNCHANGED <<sessions, cfgVars, certVars>>

\* _fetch_google_certs re-raises when the fetch fails and nothing is
\* cached (auth.py 57-61): no ValueError, the endpoint ends by the exception
AuthCertFailure(tok) ==
    /\ hpc = "auth"
    /\ tok # "missing"
    /\ wsState' = "refused"
    /\ hpc' = "crashed"
    /\ authResult' = "fetch_error"
    /\ UNCHANGED <<ipc, closeCode, closeCalls, sent, clientVars, setupResult,
                   framesRead, setupReads, firstFrame, setup_config, queueVars,
                   genVars, upVars, timerVars>>
    /\ UNCHANGED <<sessions, cfgVars, certVars>>

\* ------------------------------------------------------------------------
\* websocket_endpoint, step 1: wait for the setup message (main.py 107-123)
\* ------------------------------------------------------------------------
CloseSetup ==
    /\ wsState' = "closed"
    /\ closeCode' = SETUP_CLOSE_CODE
    /\ closeCalls' = closeCalls + 1
    /\ hpc' = "done"

\* (variant of SetupTimeout without the `return` of line 119: the close
\* frame is sent and lines 128-218 run with setup_config None)
SetupTimeout_NoReturn ==
    /\ hpc = "await_setup"
    /\ inbox = <<>>
    /\ setupReads' = setupReads + 1
    /\ setupResult' = "timeout"
    /\ wsState' = "closed"
    /\ closeCode' = SETUP_CLOSE_CODE
    /\ closeCalls' = closeCalls + 1
    /\ ipc' = "running"
    /\ spc' = "init"
    /\ deadline' = "armed"
    /\ hpc' = "active"
    /\ UNCHANGED <<sent, clientVars, authResult, framesRead, firstFrame,
                   setup_config, queueVars, agen, curEvent, config,
                   connectAttempts, upVars, tlAttempts>>
    /\ UNCHANGED <<sessions, cfgVars, certVars>>

\* asyncio.TimeoutError
SetupTimeout ==
    /\ hpc = "await_setup"
    /\ inbox = <<>>
    /\ setupReads' = setupReads + 1
    /\ setupResult' = "timeout"
    /\ CloseSetup
    /\ UNCHANGED <<ipc, sent, clientVars, authResult, framesRead, firstFrame,
                   setup_config, queueVars, genVars, upVars, timerVars>>
    /\ UNCHANGED <<sessions, cfgVars, certVars>>

\* receive_text() raises WebSocketDisconnect: `except Exception`, and the
\* close() in the handler reaches a transport the client has left
SetupDisconnect ==
    /\ hpc = "await_setup"
    /\ inbox = <<>>
    /\ clientGone
    /\ setupReads' = setupReads + 1
    /\ wsState' = "closed"
    /\ closeCalls' = closeCalls + 1
    /\ hpc' \in {"done", "crashed"}
    /\ setupResult' = "disconnect"
    /\ UNCHANGED <<ipc, closeCode, sent, clientVars, authResult, framesRead,
                   firstFrame, setup_config, queueVars, genVars, upVars,
                   timerVars>>
    /\ UNCHANGED <<sessions, cfgVars, certVars>>

\* a frame arrives: an exception closes with 4000; otherwise lines 128-218
\* run without an await: the queues, the ingress task, GeminiLive, wait_for
SetupReceive ==
    /\ hpc = "await_setup"
    /\ inbox # <<>>
    /\ inbox' = Tail(inbox)
    /\ framesRead' = framesRead + 1
    /\ setupReads' = setupReads + 1
    /\ firstFrame' = Head(inbox)
    /\ IF ParseSetup(Head(inbox)) = "invalid"
       THEN /\ setupResult' = "invalid"
            /\ CloseSetup
            /\ UNCHANGED <<ipc, setup_config, spc, deadline>>
       ELSE /\ setupResult' = "proceed"
            /\ setup_config' = ParseSetup(Head(inbox))
            /\ ipc' = "running"
            /\ spc' = "init"
            /\ deadline' = "armed"
            /\ hpc' = "active"
            /\ UNCHANGED <<wsState, closeCode, closeCalls>>
    /\ UNCHANGED <<sent, clientGone, framesSent, authResult, queueVars, agen,
                   curEvent, config, connectAttempts, upVars, tlAttempts>>
    /\ UNCHANGED <<sessions, cfgVars, certVars>>

\* (variant of IngressReceive that has no queue to put on until the
\* upstream session is connected: frames read before are dropped)
IngressReceive_DropsBeforeConnect ==
    /\ ipc = "running"
    /\ inbox # <<>>
    /\ inbox' = Tail(inbox)
    /\ framesRead' = framesRead + 1
    /\ LET f == Head(inbox)
           o == IngressOutcome(f) IN
       /\ audio_input_queue' =
            IF o.act = "audio" /\ upstream = "open"
            THEN Append(audio_input_queue, f.id)
            ELSE audio_input_queue
       /\ text_input_queue' =
            IF o.act = "text" /\ upstream = "open"
            THEN Append(text_input_queue, o.item)
            ELSE text_input_queue
       /\ ipc' = IF o.act = "raise" THEN "failed" ELSE "running"
    /\ UNCHANGED <<hpc, clientGone, framesSent, authResult, setupResult,
                   setupReads, firstFrame, setup_config, genVars, upVars,
                   wsVars, timerVars>>
    /\ UNCHANGED <<sessions, cfgVars, certVars>>

\* ------------------------------------------------------------------------
\* receive_from_client (main.py 134-184), the ingress pump
\* ------------------------------------------------------------------------
IngressReceive ==
    /\ ipc = "running"
    /\ inbox # <<>>
    /\ inbox' = Tail(inbox)
    /\ framesRead' = framesRead + 1
    /\ LET f == Head(inbox)
           o == IngressOutcome(f) IN
       /\ audio_input_queue' =
            IF o.act = "audio" THEN Append(audio_input_queue, f.id)
            ELSE audio_input_queue
       /\ text_input_queue' =
            IF o.act = "text" THEN Append(text_input_queue, o.item)
            ELSE text_input_queue
       /\ ipc' = IF o.act = "raise" THEN "failed" ELSE "running"
    /\ UNCHANGED <<hpc, clientGone, framesSent, authResult, setupResult,
                   setupReads, firstFrame, setup_config, genVars, upVars,
                   wsVars, timerVars>>
    /\ UNCHANGED <<sessions, cfgVars, certVars>>

\* WebSocketDisconnect (or the RuntimeError of a receive after the
\* disconnect message): logged, the task returns; nothing awaits it
IngressDisconnect ==
    /\ ipc = "running"
    /\ inbox = <<>>
    /\ clientGone
    /\ ipc' = "disconnected"
    /\ UNCHANGED <<hpc, clientVars, gateVars, queueVars, genVars, upVars,
                   wsVars, timerVars>>
    /\ UNCHANGED <<sessions, cfgVars, certVars>>

\* ------------------------------------------------------------------------
\* run_session (main.py 191-215) driving start_session (gemini_live.py)
\* ------------------------------------------------------------------------
\* first step of the generator: translate the setup, start connect()
GenStart ==
    /\ hpc = "active"
    /\ spc = "init"
    /\ LET c == TranslateConfig(setup_config) IN
       IF c.raised
       THEN /\ spc' = "raised"
            /\ agen' = "finished"
            /\ hpc' = "finally"
            /\ UNCHANGED <<config, connectAttempts, upstream>>
       ELSE /\ config' = c
            /\ connectAttempts' = connectAttempts + 1
            /\ upstream' = "connecting"
            /\ spc' = "connecting"
            /\ agen' = "running"
            /\ UNCHANGED hpc
    /\ UNCHANGED <<ipc, curEvent, clientVars, gateVars, queueVars, releases,
                   event_queue, apc, tpc, rpc, upMsgs, upLog, upCalls, msg, receiveCalls, wsVars,
                   timerVars>>
    /\ UNCHANGED <<sessions, cfgVars, certVars>>

\* (variant of ConnectOk without the put of line 146: the generator waits
\* for the first event of the receive pump)
ConnectOk_NoSetupComplete ==
    /\ hpc = "active"
    /\ spc = "connecting"
    /\ upstream' = "open"
    /\ apc' = "running"
    /\ tpc' = "running"
    /\ rpc' = "running"
    /\ receiveCalls' = 1
    /\ spc' = "waiting"
    /\ UNCHANGED <<hpc, ipc, agen, curEvent, config, connectAttempts,
                   clientVars, gateVars, queueVars, releases, event_queue,
                   upMsgs, upLog, upCalls, msg, wsVars, timerVars>>
    /\ UNCHANGED <<sessions, cfgVars, certVars>>

\* connect() returns: lines 143-146 and 282-291 up to the first yield
ConnectOk ==
    /\ hpc = "active"
    /\ spc = "connecting"
    /\ upstream' = "open"
    /\ apc' = "running"
    /\ tpc' = "running"
    /\ rpc' = "running"
    /\ receiveCalls' = 1
    /\ curEvent' = Event("setup_complete", 0)
    /\ spc' = "sending"
    /\ UNCHANGED <<hpc, ipc, agen, config, connectAttempts, clientVars,
                   gateVars, queueVars, releases, event_queue, upMsgs, upLog, upCalls, msg,
                   wsVars, timerVars>>
    /\ UNCHANGED <<sessions, cfgVars, certVars>>

\* connect() raises: run_session raises, `except Exception` at line 227
ConnectFail ==
    /\ hpc = "active"
    /\ spc = "connecting"
    /\ upstream' = "failed"
    /\ spc' = "raised"
    /\ agen' = "finished"
    /\ hpc' = "finally"
    /\ UNCHANGED <<ipc, curEvent, config, connectAttempts, clientVars,
                   gateVars, queueVars, releases, event_queue, apc, tpc, rpc,
                   upMsgs, upLog, upCalls, msg, receiveCalls, wsVars, timerVars>>
    /\ UNCHANGED <<sessions, cfgVars, certVars>>

\* the finally block of the generator (lines 292-295) with queue q left:
\* the three tasks are cancelled; a cancelled receive_loop runs its own
\* finally and puts None (line 280)
CancelPumps(q) ==
    /\ apc' = Cancel(apc)
    /\ tpc' = Cancel(tpc)
    /\ msg' = NoItem
    /\ rpc' = Cancel(rpc)
    /\ event_queue' = IF rpc = "running" THEN Append(q, SessionEnded) ELSE q

\* the generator takes the next event of a non-empty queue (lines 288-291):
\* None breaks the loop and runs the finally block, then the `async with`
\* closes the upstream session; any other event is yielded to run_session
Resume ==
    IF Head(event_queue) = SessionEnded
    THEN /\ CancelPumps(Tail(event_queue))
         /\ spc' = "exiting"
         /\ UNCHANGED curEvent
    ELSE /\ curEvent' = Head(event_queue)
         /\ event_queue' = Tail(event_queue)
         /\ spc' = "sending"
         /\ UNCHANGED <<apc, tpc, rpc, msg>>

\* (variant of RunSendOk in which an error event ends the loop: after the
\* write of the error frame the generator is left, whatever is queued)
RunSendOk_StopsOnError ==
    /\ hpc = "active"
    /\ spc = "sending"
    /\ ~clientGone
    /\ sent' = Append(sent, ClientFrameOf(curEvent))
    /\ IF curEvent.t = "error"
       THEN /\ CancelPumps(event_queue)
            /\ spc' = "exiting"
            /\ UNCHANGED curEvent
       ELSE IF event_queue = <<>>
       THEN /\ spc' = "waiting"
            /\ UNCHANGED <<curEvent, event_queue, apc, tpc, rpc, msg>>
       ELSE Resume
    /\ UNCHANGED <<hpc, ipc, agen, config, connectAttempts, clientVars,
                   gateVars, queueVars, upstream, releases, upMsgs, upLog,
                   upCalls, receiveCalls,
                   wsState, closeCode, closeCalls, timerVars>>
    /\ UNCHANGED <<sessions, cfgVars, certVars>>

\* the write of curEvent succeeds; the generator is asked for the next
RunSendOk ==
    /\ hpc = "active"
    /\ spc = "sending"
    /\ ~clientGone
    /\ sent' = Append(sent, ClientFrameOf(curEvent))
    /\ IF event_queue = <<>>
       THEN /\ spc' = "waiting"
            /\ UNCHANGED <<curEvent, event_queue, apc, tpc, rpc, msg>>
       ELSE Resume
    /\ UNCHANGED <<hpc, ipc, agen, config, connectAttempts, clientVars,
                   gateVars, queueVars, upstream, releases, upMsgs, upLog, upCalls,
                   receiveCalls,
                   wsState, closeCode, closeCalls, timerVars>>
    /\ UNCHANGED <<sessions, cfgVars, certVars>>

\* the write raises: run_session ends by the exception while the generator
\* stays suspended at its yield; its finally block has not run
RunSendFail ==
    /\ hpc = "active"
    /\ spc = "sending"
    /\ clientGone
    /\ spc' = "raised"
    /\ agen' = "orphaned"
    /\ hpc' = "finally"
    /\ UNCHANGED <<ipc, curEvent, config, connectAttempts, clientVars,
                   gateVars, queueVars, upVars, wsVars, timerVars>>
    /\ UNCHANGED <<sessions, cfgVars, certVars>>

\* event_queue.get() returns
GenWake ==
    /\ hpc = "active"
    /\ spc = "waiting"
    /\ event_queue # <<>>
    /\ Resume
    /\ UNCHANGED <<hpc, ipc, agen, config, connectAttempts, clientVars,
                   gateVars, queueVars, upstream, releases, upMsgs, upLog, upCalls,
                   receiveCalls,
                   wsVars, timerVars>>
    /\ UNCHANGED <<sessions, cfgVars, certVars>>

\* the upstream session is closed by the `async with` (line 140); the
\* generator and run_session return, wait_for returns
GenExit ==
    /\ hpc = "active"
    /\ spc = "exiting"
    /\ upstream' = "released"
    /\ releases' = releases + 1
    /\ agen' = "finished"
    /\ spc' = "done"
    /\ hpc' = "finally"
    /\ UNCHANGED <<ipc, curEvent, config, connectAttempts, clientVars,
                   gateVars, queueVars, event_queue, apc, tpc, rpc, upMsgs, upLog,
                   upCalls, msg, receiveCalls, wsVars, timerVars>>
    /\ UNCHANGED <<sessions, cfgVars, certVars>>

\* the event loop's finalizer of a generator nobody iterates any more:
\* aclose() throws GeneratorExit at the yield, the finally block and the
\* `async with` exit run
AgenFinalize ==
    /\ agen = "orphaned"
    /\ CancelPumps(event_queue)
    /\ upstream' = "released"
    /\ releases' = releases + 1
    /\ agen' = "finished"
    /\ UNCHANGED <<hpc, ipc, spc, curEvent, config, connectAttempts,
                   clientVars, gateVars, queueVars, upMsgs, upLog, upCalls,
                   receiveCalls, wsVars,
                   timerVars>>
    /\ UNCHANGED <<sessions, cfgVars, certVars>>

\* ------------------------------------------------------------------------
\* The three tasks of start_session
\* ------------------------------------------------------------------------
\* (variant of SendAudio that takes the chunk queued last, as a LifoQueue
\* would give it)
SendAudio_Lifo ==
    /\ apc = "running"
    /\ audio_input_queue # <<>>
    /\ audio_input_queue' =
           SubSeq(audio_input_queue, 1, Len(audio_input_queue) - 1)
    /\ IF upstream = "open"
       THEN /\ upCalls' =
                 Append(upCalls,
                        AudioCall(audio_input_queue[Len(audio_input_queue)]))
            /\ UNCHANGED apc
       ELSE /\ apc' = "failed"
            /\ UNCHANGED upCalls
    /\ UNCHANGED <<hpc, ipc, clientVars, gateVars, text_input_queue, genVars,
                   upstream, releases, event_queue, tpc, rpc, upMsgs, upLog,
                   msg, receiveCalls, wsVars, timerVars>>
    /\ UNCHANGED <<sessions, cfgVars, certVars>>

\* send_audio (149-160): only CancelledError is caught, so a failed
\* upstream call ends the task
SendAudio ==
    /\ apc = "running"
    /\ audio_input_queue # <<>>
    /\ audio_input_queue' = Tail(audio_input_queue)
    /\ IF upstream = "open"
       THEN /\ upCalls' = Append(upCalls, AudioCall(Head(audio_input_queue)))
            /\ UNCHANGED apc
       ELSE /\ apc' = "failed"
            /\ UNCHANGED upCalls
    /\ UNCHANGED <<hpc, ipc, clientVars, gateVars, text_input_queue, genVars,
                   upstream, releases, event_queue, tpc, rpc, upMsgs, upLog, msg,
                   receiveCalls, wsVars, timerVars>>
    /\ UNCHANGED <<sessions, cfgVars, certVars>>

\* send_text (163-197)
SendText ==
    /\ tpc = "running"
    /\ text_input_queue # <<>>
    /\ text_input_queue' = Tail(text_input_queue)
    /\ LET o == TextStep(Head(text_input_queue)) IN
       CASE o.act = "skip"  -> UNCHANGED <<tpc, upCalls>>
         [] o.act = "raise" -> tpc' = "failed" /\ UNCHANGED upCalls
         [] o.act = "call"  ->
              IF upstream = "open"
              THEN upCalls' = Append(upCalls, o.item) /\ UNCHANGED tpc
              ELSE tpc' = "failed" /\ UNCHANGED upCalls
    /\ msg' = IF tpc' = "running" THEN Head(text_input_queue) ELSE NoItem
    /\ UNCHANGED <<hpc, ipc, clientVars, gateVars, audio_input_queue, genVars,
                   upstream, releases, event_queue, apc, rpc, upMsgs, upLog,
                   receiveCalls, wsVars, timerVars>>
    /\ UNCHANGED <<sessions, cfgVars, certVars>>

\* receive_loop (200-272): one upstream message, its events in order
ReceiveMessage(m) ==
    /\ rpc = "running"
    /\ upstream = "open"
    /\ upMsgs < MaxUpstream
    /\ upMsgs' = upMsgs + 1
    /\ upLog' = Append(upLog, m)
    /\ event_queue' = event_queue \o EventsOf(m, upMsgs + 1)
    /\ UNCHANGED <<hpc, ipc, clientVars, gateVars, queueVars, genVars,
                   upstream, releases, apc, tpc, rpc, upCalls, msg, receiveCalls, wsVars,
                   timerVars>>
    /\ UNCHANGED <<sessions, cfgVars, certVars>>

\* receive_loop (202-203): the `async for` over session.receive() ends
\* without an exception; `while True` calls session.receive() again
ReceiveExhausted ==
    /\ rpc = "running"
    /\ upstream = "open"
    /\ upMsgs < MaxUpstream
    /\ upMsgs' = upMsgs + 1
    /\ upLog' = Append(upLog, EndOfStream)
    /\ receiveCalls' = receiveCalls + 1
    /\ UNCHANGED <<hpc, ipc, clientVars, gateVars, queueVars, genVars,
                   upstream, releases, event_queue, apc, tpc, rpc, upCalls,
                   msg, wsVars, timerVars>>
    /\ UNCHANGED <<sessions, cfgVars, certVars>>

\* the upstream connection fails or is closed by the service
UpstreamBreak ==
    /\ upstream = "open"
    /\ upstream' = "broken"
    /\ UNCHANGED <<hpc, ipc, clientVars, gateVars, queueVars, genVars,
                   releases, event_queue, apc, tpc, rpc, upMsgs, upLog, upCalls, msg, receiveCalls,
                   wsVars, timerVars>>
    /\ UNCHANGED <<sessions, cfgVars, certVars>>

\* (variant of ReceiveException without the put of lines 276-278: only the
\* None of the finally block is enqueued)
ReceiveException_NoErrorEvent ==
    /\ rpc = "running"
    /\ upstream = "broken"
    /\ event_queue' = Append(event_queue, SessionEnded)
    /\ rpc' = "failed"
    /\ UNCHANGED <<hpc, ipc, clientVars, gateVars, queueVars, genVars,
                   upstream, releases, apc, tpc, upMsgs, upLog, upCalls, msg, receiveCalls, wsVars,
                   timerVars>>
    /\ UNCHANGED <<sessions, cfgVars, certVars>>

\* (variant of ReceiveException that answers the exception by connecting
\* again instead of ending the task)
ReceiveException_Reconnects ==
    /\ rpc = "running"
    /\ upstream = "broken"
    /\ upstream' = "open"
    /\ connectAttempts' = connectAttempts + 1
    /\ UNCHANGED <<hpc, ipc, clientVars, gateVars, queueVars, spc, agen,
                   curEvent, config, releases, event_queue, apc, tpc, rpc,
                   upMsgs, upLog, upCalls, msg, receiveCalls, wsVars, timerVars>>
    /\ UNCHANGED <<sessions, cfgVars, certVars>>

\* receive_loop (274-280): session.receive() raises; the error event, then
\* None from the finally block
ReceiveException ==
    /\ rpc = "running"
    /\ upstream = "broken"
    /\ event_queue' = event_queue \o <<Event("error", 0), SessionEnded>>
    /\ rpc' = "failed"
    /\ UNCHANGED <<hpc, ipc, clientVars, gateVars, queueVars, genVars,
                   upstream, releases, apc, tpc, upMsgs, upLog, upCalls, msg, receiveCalls, wsVars,
                   timerVars>>
    /\ UNCHANGED <<sessions, cfgVars, certVars>>

\* ------------------------------------------------------------------------
\* websocket_endpoint, the deadline and the teardown (main.py 217-235)
\* ------------------------------------------------------------------------
\* (variant of DeadlineFire with the timeout on each wait for the next
\* event instead of on run_session: every event starts the timer again,
\* and it goes off only while the generator waits on an empty queue)
DeadlineFire_PerOperation ==
    /\ hpc = "active"
    /\ deadline = "armed"
    /\ spc = "waiting"
    /\ event_queue = <<>>
    /\ deadline' = "fired"
    /\ hpc' = "timeout_notify"
    /\ spc' = "cancelled"
    /\ CancelPumps(event_queue)
    /\ upstream' = "released"
    /\ releases' = releases + 1
    /\ agen' = "finished"
    /\ UNCHANGED <<ipc, curEvent, config, connectAttempts, clientVars,
                   gateVars, queueVars, upMsgs, upLog, upCalls, receiveCalls,
                   wsVars, tlAttempts>>
    /\ UNCHANGED <<sessions, cfgVars, certVars>>

\* wait_for cancels run_session where it is suspended and raises
\* TimeoutError once the cancellation has gone through
DeadlineFire ==
    /\ hpc = "active"
    /\ deadline = "armed"
    /\ deadline' = "fired"
    /\ hpc' = "timeout_notify"
    /\ spc' = "cancelled"
    /\ CASE spc = "init" ->
              UNCHANGED <<agen, upstream, releases, event_queue, apc, tpc, rpc,
                          msg>>
         [] spc = "connecting" ->
              /\ upstream' = "failed"
              /\ agen' = "finished"
              /\ UNCHANGED <<releases, event_queue, apc, tpc, rpc, msg>>
         [] spc = "waiting" ->
              \* CancelledError at line 288: finally block, `async with` exit
              /\ CancelPumps(event_queue)
              /\ upstream' = "released"
              /\ releases' = releases + 1
              /\ agen' = "finished"
         [] spc = "sending" ->
              \* CancelledError in run_session: the generator stays at its yield
              /\ agen' = "orphaned"
              /\ UNCHANGED <<upstream, releases, event_queue, apc, tpc, rpc,
                             msg>>
         [] spc = "exiting" ->
              /\ upstream' = "released"
              /\ releases' = releases + 1
              /\ agen' = "finished"
              /\ UNCHANGED <<event_queue, apc, tpc, rpc, msg>>
    /\ UNCHANGED <<ipc, curEvent, config, connectAttempts, clientVars,
                   gateVars, queueVars, upMsgs, upLog, upCalls, receiveCalls,
                   wsVars, tlAttempts>>
    /\ UNCHANGED <<sessions, cfgVars, certVars>>

\* (variant of TimeLimitNotify that goes to the finally block without the
\* send of line 222)
TimeLimitNotify_Skipped ==
    /\ hpc = "timeout_notify"
    /\ hpc' = "finally"
    /\ UNCHANGED <<ipc, clientVars, gateVars, queueVars, genVars, upVars,
                   wsVars, timerVars>>
    /\ UNCHANGED <<sessions, cfgVars, certVars>>

\* (variant of TimeLimitNotify that first writes the events still on the
\* event queue to the client)
TimeLimitNotify_FlushesEvents ==
    /\ hpc = "timeout_notify"
    /\ tlAttempts' = tlAttempts + 1
    /\ sent' = IF clientGone THEN sent
               ELSE Append(sent \o [i \in DOMAIN event_queue |->
                                       ClientFrameOf(event_queue[i])],
                           TimeLimitFrame)
    /\ hpc' = "finally"
    /\ UNCHANGED <<ipc, clientVars, gateVars, queueVars, genVars, upVars,
                   wsState, closeCode, closeCalls, deadline>>
    /\ UNCHANGED <<sessions, cfgVars, certVars>>

\* lines 219-226: one send of the time-limit error, a failure is swallowed
TimeLimitNotify ==
    /\ hpc = "timeout_notify"
    /\ tlAttempts' = tlAttempts + 1
    /\ sent' = IF clientGone THEN sent ELSE Append(sent, TimeLimitFrame)
    /\ hpc' = "finally"
    /\ UNCHANGED <<ipc, clientVars, gateVars, queueVars, genVars, upVars,
                   wsState, closeCode, closeCalls, deadline>>
    /\ UNCHANGED <<sessions, cfgVars, certVars>>

\* (variant of Teardown without the try/except around close() of lines
\* 231-234: the exception of a close() on a transport the client has left
\* ends the endpoint)
Teardown_CloseNotGuarded ==
    /\ hpc = "finally"
    /\ ipc' = Cancel(ipc)
    /\ wsState' = "closed"
    /\ closeCalls' = closeCalls + 1
    /\ closeCode' = IF clientGone THEN closeCode ELSE NORMAL_CLOSE_CODE
    /\ hpc' = IF clientGone THEN "crashed" ELSE "done"
    /\ UNCHANGED <<sent, clientVars, gateVars, queueVars, genVars, upVars,
                   timerVars>>
    /\ UNCHANGED <<sessions, cfgVars, certVars>>

\* (variant of Teardown that awaits the ingress task instead of cancelling
\* it: the finally block goes on only once the task has ended by itself)
Teardown_AwaitsIngress ==
    /\ hpc = "finally"
    /\ ipc # "running"
    /\ wsState' = "closed"
    /\ closeCalls' = closeCalls + 1
    /\ closeCode' = IF clientGone THEN closeCode ELSE NORMAL_CLOSE_CODE
    /\ hpc' = "done"
    /\ UNCHANGED <<ipc, sent, clientVars, gateVars, queueVars, genVars,
                   upVars, timerVars>>
    /\ UNCHANGED <<sessions, cfgVars, certVars>>

\* lines 229-235: cancel the ingress task, close the transport, return
Teardown ==
    /\ hpc = "finally"
    /\ ipc' = Cancel(ipc)
    /\ wsState' = "closed"
    /\ closeCalls' = closeCalls + 1
    /\ closeCode' = IF clientGone THEN closeCode ELSE NORMAL_CLOSE_CODE
    /\ hpc' = "done"
    /\ UNCHANGED <<sent, clientVars, gateVars, queueVars, genVars, upVars,
                   timerVars>>
    /\ UNCHANGED <<sessions, cfgVars, certVars>>

\* ------------------------------------------------------------------------
\* Specification
\* ------------------------------------------------------------------------
Next ==
    \/ \E f \in ClientFrames(framesSent + 1) : ClientSend(f)
    \/ ClientDisconnect
    \/ \E tok \in Tokens : AuthReject(tok)
    \/ \E tok \in Tokens : AuthAccept(tok)
    \/ \E tok \in Tokens : AuthCertFailure(tok)
    \/ SetupTimeout
    \/ SetupDisconnect
    \/ SetupReceive
    \/ IngressReceive
    \/ IngressDisconnect
    \/ GenStart
    \/ ConnectOk
    \/ ConnectFail
    \/ RunSendOk
    \/ RunSendFail
    \/ GenWake
    \/ GenExit
    \/ AgenFinalize
    \/ SendAudio
    \/ SendText
    \/ \E m \in UpstreamMessages : ReceiveMessage(m)
    \/ UpstreamBreak
    \/ ReceiveException
    \/ DeadlineFire
    \/ TimeLimitNotify
    \/ Teardown

Spec == Init /\ [][Next]_vars

\* the steps the server takes by itself once they are enabled: no client
\* frame, no upstream message or failure, no connect result, no timer
ProgramStep ==
    \/ SetupReceive
    \/ IngressReceive
    \/ IngressDisconnect
    \/ GenStart
    \/ RunSendOk
    \/ RunSendFail
    \/ GenWake
    \/ GenExit
    \/ AgenFinalize
    \/ SendAudio
    \/ SendText
    \/ ReceiveException
    \/ TimeLimitNotify
    \/ Teardown

\* connect() comes back, with a session or with an exception
ConnectReturns == ConnectOk \/ ConnectFail

\* the event loop runs every task that can run, and a pending connect ends;
\* nothing is assumed of the client, the upstream events or the timer
FairSpec == Spec /\ WF_vars(ProgramStep) /\ WF_vars(ConnectReturns)

\* the timer of wait_for (main.py 218) goes off while the session is Active
DeadlineSpec == FairSpec /\ WF_vars(DeadlineFire)

\* ------------------------------------------------------------------------
\* The streaming of the Active phase: from the state SetupReceive leaves
\* after the setup {"setup": {"outputAudioTranscription": {}}}, a client
\* that stays connected sends up to MaxStream frames and the upstream
\* session delivers the messages of StreamMessages, ends its stream or
\* breaks, all before the deadline
\* ------------------------------------------------------------------------
StreamInit ==
    /\ hpc = "active"
    /\ wsState = "open"
    /\ closeCode = 0
    /\ closeCalls = 0
    /\ sent = <<>>
    /\ clientGone = FALSE
    /\ inbox = <<>>
    /\ framesSent = 1
    /\ authResult = "claims"
    /\ setupResult = "proceed"
    /\ framesRead = 1
    /\ setupReads = 1
    /\ firstFrame = TextFrame("object", "setup", "transcribe", "na", 1)
    /\ setup_config = "transcribe"
    /\ audio_input_queue = <<>>
    /\ text_input_queue = <<>>
    /\ ipc = "running"
    /\ spc = "init"
    /\ agen = "none"
    /\ curEvent = NoEvent
    /\ config = DefaultConfig
    /\ connectAttempts = 0
    /\ upstream = "none"
    /\ releases = 0
    /\ event_queue = <<>>
    /\ apc = "none"
    /\ tpc = "none"
    /\ rpc = "none"
    /\ upMsgs = 0
    /\ upLog = <<>>
    /\ upCalls = <<>>
    /\ msg = NoItem
    /\ receiveCalls = 0
    /\ deadline = "armed"
    /\ tlAttempts = 0
    /\ sessions = [s \in Sessions |-> Connected]
    /\ NotTranslating
    /\ CacheEmpty

\* the client sends one more frame of its stream
ClientStream(f) ==
    /\ wsState = "open"
    /\ ~clientGone
    /\ framesSent < 1 + MaxStream
    /\ Len(inbox) < MaxInbox
    /\ inbox' = Append(inbox, f)
    /\ framesSent' = framesSent + 1
    /\ UNCHANGED <<hpc, ipc, clientGone, gateVars, queueVars, genVars,
                   upVars, wsVars, timerVars>>
    /\ UNCHANGED <<sessions, cfgVars, certVars>>

StreamNext ==
    \/ \E f \in StreamFrames(framesSent + 1) : ClientStream(f)
    \/ IngressReceive
    \/ GenStart
    \/ ConnectOk
    \/ ConnectFail
    \/ RunSendOk
    \/ GenWake
    \/ GenExit
    \/ SendAudio
    \/ SendText
    \/ \E m \in StreamMessages : ReceiveMessage(m)
    \/ ReceiveExhausted
    \/ UpstreamBreak
    \/ ReceiveException
    \/ Teardown

StreamSpec == StreamInit /\ [][StreamNext]_vars

\* ------------------------------------------------------------------------
\* Two connections in Active, served concurrently by the one event loop
\* ------------------------------------------------------------------------
\* the client of session s sends a frame on its own transport
SessionClientSend(s, f) ==
    /\ sessions[s].framesSent < MaxPair
    /\ sessions' = [sessions EXCEPT
                      ![s].inbox = Append(@, f),
                      ![s].framesSent = @ + 1]
    /\ UNCHANGED <<connVars, cfgVars, certVars>>

\* (variant of SessionIngress with the two input queues at module level:
\* every invocation puts on the queues session "A" reads)
SessionIngress_SharedQueues(s) ==
    /\ sessions[s].inbox # <<>>
    /\ LET f == Head(sessions[s].inbox)
           o == IngressOutcome(f)
           popped == [sessions EXCEPT ![s].inbox = Tail(@)] IN
       sessions' = [popped EXCEPT
                      !["A"].audio_input_queue =
                          IF o.act = "audio" THEN Append(@, f.id) ELSE @,
                      !["A"].text_input_queue =
                          IF o.act = "text" THEN Append(@, o.item) ELSE @]
    /\ UNCHANGED <<connVars, cfgVars, certVars>>

\* receive_from_client of session s (main.py 134-168): websocket and both
\* queues are the locals of its invocation
SessionIngress(s) ==
    /\ sessions[s].inbox # <<>>
    /\ LET f == Head(sessions[s].inbox)
           o == IngressOutcome(f) IN
       sessions' = [sessions EXCEPT
                      ![s].inbox = Tail(@),
                      ![s].audio_input_queue =
                          IF o.act = "audio" THEN Append(@, f.id) ELSE @,
                      ![s].text_input_queue =
                          IF o.act = "text" THEN Append(@, o.item) ELSE @]
    /\ UNCHANGED <<connVars, cfgVars, certVars>>

\* send_audio of session s (gemini_live.py 149-160)
SessionSendAudio(s) ==
    /\ sessions[s].audio_input_queue # <<>>
    /\ sessions' = [sessions EXCEPT
                      ![s].audio_input_queue = Tail(@),
                      ![s].upCalls =
                          Append(@, AudioCall(
                                        Head(sessions[s].audio_input_queue)))]
    /\ UNCHANGED <<connVars, cfgVars, certVars>>

\* send_text of session s (gemini_live.py 163-197)
SessionSendText(s) ==
    /\ sessions[s].text_input_queue # <<>>
    /\ LET o == TextStep(Head(sessions[s].text_input_queue)) IN
       sessions' = [sessions EXCEPT
                      ![s].text_input_queue = Tail(@),
                      ![s].upCalls =
                          IF o.act = "call" THEN Append(@, o.item) ELSE @]
    /\ UNCHANGED <<connVars, cfgVars, certVars>>

\* receive_loop of session s (gemini_live.py 200-272)
SessionReceive(s, m) ==
    /\ Len(sessions[s].upLog) < MaxUpstream
    /\ sessions' = [sessions EXCEPT
                      ![s].upLog = Append(@, m),
                      ![s].event_queue =
                          @ \o EventsOf(m,
                                        Tag(s, Len(sessions[s].upLog) + 1))]
    /\ UNCHANGED <<connVars, cfgVars, certVars>>

\* run_session of session s (main.py 191-215, gemini_live.py 286-290):
\* the next event of its generator is written to its websocket
SessionEgress(s) ==
    /\ sessions[s].event_queue # <<>>
    /\ sessions' = [sessions EXCEPT
                      ![s].event_queue = Tail(@),
                      ![s].sent =
                          Append(@, ClientFrameOf(
                                        Head(sessions[s].event_queue)))]
    /\ UNCHANGED <<connVars, cfgVars, certVars>>

PairNext ==
    \/ \E s \in Sessions :
          \E f \in PairFrames(s, sessions[s].framesSent + 1) :
             SessionClientSend(s, f)
    \/ \E s \in Sessions : SessionIngress(s)
    \/ \E s \in Sessions : SessionSendAudio(s)
    \/ \E s \in Sessions : SessionSendText(s)
    \/ \E s \in Sessions : \E m \in PairMessages : SessionReceive(s, m)
    \/ \E s \in Sessions : SessionEgress(s)

PairSpec == Init /\ [][PairNext]_vars

\* ------------------------------------------------------------------------
\* The configuration translation of start_session applied to a setup
\* {"tools": tool_config}, for every tools list of ToolConfigs
\* ------------------------------------------------------------------------
\* start_session is called with the setup {"tools": tc} (lines 32-50)
StartSession(tc) ==
    /\ cfgpc = "idle"
    /\ tool_config' = tc
    /\ config_args' = DefaultConfig
    /\ cfgpc' = "translate"
    /\ UNCHANGED <<connVars, sessions, certVars>>

\* lines 52-138: config_args is ready for LiveConnectConfig
TranslateToolsSetup ==
    /\ cfgpc = "translate"
    /\ config_args' = TranslateSetup(ToolsSetup(tool_config))
    /\ cfgpc' = "connect"
    /\ UNCHANGED <<tool_config, connVars, sessions, certVars>>

ConfigNext ==
    \/ \E tc \in ToolConfigs : StartSession(tc)
    \/ TranslateToolsSetup

ConfigSpec == Init /\ [][ConfigNext]_vars

\* ------------------------------------------------------------------------
\* The certificate cache: _fetch_google_certs (auth.py 39-62) called from
\* the threads of Callers.  A position is the line a caller is at; the
\* certificates of the n-th urlopen call are n, the empty dict is 0.
\* ------------------------------------------------------------------------
\* `_certs and <time> < _certs_expiry` of lines 43 and 48
CacheValid == certs # 0 /\ clock < certs_expiry

Returned(t) == cpc[t] \in {"return44", "return49", "return60", "return62"}

\* a caller enters _fetch_google_certs
CallFetch(t) ==
    /\ cpc[t] = "idle"
    /\ callsMade[t] < MaxCalls
    /\ cpc' = [cpc EXCEPT ![t] = "line42"]
    /\ UNCHANGED <<certs, certs_expiry, cert_lock, clock, fetches, result,
                   callsMade>>
    /\ UNCHANGED <<connVars, sessions, cfgVars>>

\* lines 42-44: the check outside the lock
FastCheck(t) ==
    /\ cpc[t] = "line42"
    /\ IF CacheValid
       THEN /\ cpc' = [cpc EXCEPT ![t] = "return44"]
            /\ result' = [result EXCEPT ![t] = certs]
       ELSE /\ cpc' = [cpc EXCEPT ![t] = "line46"]
            /\ UNCHANGED result
    /\ UNCHANGED <<certs, certs_expiry, cert_lock, clock, fetches,
                   callsMade>>
    /\ UNCHANGED <<connVars, sessions, cfgVars>>

\* line 46: `with _cert_lock` blocks until the lock is free
AcquireLock(t) ==
    /\ cpc[t] = "line46"
    /\ cert_lock = "free"
    /\ cert_lock' = t
    /\ cpc' = [cpc EXCEPT ![t] = "line48"]
    /\ UNCHANGED <<certs, certs_expiry, clock, fetches, result, callsMade>>
    /\ UNCHANGED <<connVars, sessions, cfgVars>>

\* (variant of DoubleCheck without lines 48-49: the caller that got the
\* lock always fetches)
DoubleCheck_AlwaysFetches(t) ==
    /\ cpc[t] = "line48"
    /\ cpc' = [cpc EXCEPT ![t] = "line51"]
    /\ fetches' = fetches + 1
    /\ UNCHANGED <<result, cert_lock>>
    /\ UNCHANGED <<certs, certs_expiry, clock, callsMade>>
    /\ UNCHANGED <<connVars, sessions, cfgVars>>

\* lines 48-51: the check inside the lock; a valid cache is returned (the
\* `with` releases the lock), else urlopen is called
DoubleCheck(t) ==
    /\ cpc[t] = "line48"
    /\ IF CacheValid
       THEN /\ cpc' = [cpc EXCEPT ![t] = "return49"]
            /\ result' = [result EXCEPT ![t] = certs]
            /\ cert_lock' = "free"
            /\ UNCHANGED fetches
       ELSE /\ cpc' = [cpc EXCEPT ![t] = "line51"]
            /\ fetches' = fetches + 1
            /\ UNCHANGED <<result, cert_lock>>
    /\ UNCHANGED <<certs, certs_expiry, clock, callsMade>>
    /\ UNCHANGED <<connVars, sessions, cfgVars>>

\* lines 51-52: the response arrives and is parsed; _certs is assigned
FetchOk(t) ==
    /\ cpc[t] = "line51"
    /\ certs' = fetches
    /\ cpc' = [cpc EXCEPT ![t] = "line53"]
    /\ UNCHANGED <<certs_expiry, cert_lock, clock, fetches, result,
                   callsMade>>
    /\ UNCHANGED <<connVars, sessions, cfgVars>>

\* lines 53-56 and 62: the expiry is set, the lock released, _certs returned
SetExpiry(t) ==
    /\ cpc[t] = "line53"
    /\ certs_expiry' = clock + CERT_CACHE_TTL
    /\ cert_lock' = "free"
    /\ cpc' = [cpc EXCEPT ![t] = "return62"]
    /\ result' = [result EXCEPT ![t] = certs]
    /\ UNCHANGED <<certs, clock, fetches, callsMade>>
    /\ UNCHANGED <<connVars, sessions, cfgVars>>

\* lines 57-61: urlopen, read or json.loads raises; stale certificates are
\* returned, without any the exception goes on to the caller
FetchFail(t) ==
    /\ cpc[t] = "line51"
    /\ cert_lock' = "free"
    /\ IF certs # 0
       THEN /\ cpc' = [cpc EXCEPT ![t] = "return60"]
            /\ result' = [result EXCEPT ![t] = certs]
       ELSE /\ cpc' = [cpc EXCEPT ![t] = "raise61"]
            /\ UNCHANGED result
    /\ UNCHANGED <<certs, certs_expiry, clock, fetches, callsMade>>
    /\ UNCHANGED <<connVars, sessions, cfgVars>>

\* the caller goes on with what it got
EndFetch(t) ==
    /\ Returned(t) \/ cpc[t] = "raise61"
    /\ cpc' = [cpc EXCEPT ![t] = "idle"]
    /\ result' = [result EXCEPT ![t] = 0]
    /\ callsMade' = [callsMade EXCEPT ![t] = @ + 1]
    /\ UNCHANGED <<certs, certs_expiry, cert_lock, clock, fetches>>
    /\ UNCHANGED <<connVars, sessions, cfgVars>>

\* an hour passes: the certificates of the cache have expired
HourPasses ==
    /\ clock < MaxHours * CERT_CACHE_TTL
    /\ clock' = clock + CERT_CACHE_TTL
    /\ UNCHANGED <<certs, certs_expiry, cert_lock, fetches, cpc, result,
                   callsMade>>
    /\ UNCHANGED <<connVars, sessions, cfgVars>>

CertNext ==
    \/ \E t \in Callers : CallFetch(t)
    \/ \E t \in Callers : FastCheck(t)
    \/ \E t \in Callers : AcquireLock(t)
    \/ \E t \in Callers : DoubleCheck(t)
    \/ \E t \in Callers : FetchOk(t)
    \/ \E t \in Callers : SetExpiry(t)
    \/ \E t \in Callers : FetchFail(t)
    \/ \E t \in Callers : EndFetch(t)
    \/ HourPasses

CertSpec == Init /\ [][CertNext]_vars

\* ------------------------------------------------------------------------
\* Session states of the supervisor, read off the endpoint's position
\* ------------------------------------------------------------------------
SessionState ==
    CASE hpc = "auth"           -> "Connecting"
      [] hpc = "await_setup"    -> "AwaitingSetup"
      [] hpc = "active"         -> "Active"
      [] hpc = "timeout_notify" -> "Closing"
      [] hpc = "finally"        -> "Closing"
      [] hpc = "done"           -> "Closed"
      [] OTHER                  -> "Failed"

\* a pump that is neither finished nor cancelled
Running(task) == task = "running"

\* run_session, the egress pump, is still in its loop
EgressRunning == spc \in {"init", "connecting", "waiting", "sending", "exiting"}

NoPumpSpawned ==
    /\ ipc = "none" /\ apc = "none" /\ tpc = "none" /\ rpc = "none"
    /\ spc = "none"

QueuesEmpty ==
    /\ audio_input_queue = <<>>
    /\ text_input_queue = <<>>
    /\ event_queue = <<>>

TimeLimitFramesSent == {i \in DOMAIN sent : sent[i] = TimeLimitFrame}

UpstreamErrorFramesSent ==
    {i \in DOMAIN sent : sent[i].body = "error" /\ sent[i] # TimeLimitFrame}

\* ------------------------------------------------------------------------
\* C1: when identity verification fails (ValueError), the transport is
\* closed with code 4001 and the endpoint has returned: no setup frame was
\* read, no pump was spawned, no upstream connect was attempted.
\* ------------------------------------------------------------------------
C1_AuthFailureRefused ==
    authResult = "ValueError" =>
        /\ SessionState = "Closed"
        /\ wsState = "closed"
        /\ closeCode = AUTH_CLOSE_CODE
        /\ setupReads = 0
        /\ framesRead = 0
        /\ NoPumpSpawned
        /\ connectAttempts = 0

\* C1: a connection refused after a failed verification
C1_Witness ==
    /\ authResult = "ValueError"
    /\ closeCode = AUTH_CLOSE_CODE
    /\ hpc = "done"

\* ------------------------------------------------------------------------
\* C2: when no setup message arrives within the setup timeout, the
\* connection is closed with code 4000 and no session is created: no queue
\* is filled, no pump is spawned, no upstream connect is attempted.
\* ------------------------------------------------------------------------
C2_SetupTimeoutCloses ==
    setupResult = "timeout" =>
        /\ SessionState = "Closed"
        /\ wsState = "closed"
        /\ closeCode = SETUP_CLOSE_CODE
        /\ framesRead = 0
        /\ QueuesEmpty
        /\ NoPumpSpawned
        /\ connectAttempts = 0
        /\ deadline = "unarmed"

\* C2: a connection closed by the setup timeout
C2_Witness ==
    /\ setupResult = "timeout"
    /\ closeCode = SETUP_CLOSE_CODE
    /\ hpc = "done"

\* ------------------------------------------------------------------------
\* C3: a first text frame that is malformed or carries no setup object is
\* answered by closing with the setup code 4000, and the session never
\* becomes Active.
\* ------------------------------------------------------------------------
NoSetupObject(f) ==
    /\ f.kind = "text"
    /\ ~(f.json = "object" /\ f.key = "setup")

C3_NoSetupObjectCloses ==
    (firstFrame # NoFrame /\ NoSetupObject(firstFrame)) =>
        /\ SessionState = "Closed"
        /\ closeCode = SETUP_CLOSE_CODE
        /\ NoPumpSpawned
        /\ deadline = "unarmed"

\* ------------------------------------------------------------------------
\* C4: when the deadline expires during Active, the time-limit error frame
\* is sent exactly once (one attempt, whose failure is swallowed), and the
\* session then reaches Closed with the transport closed.
\* ------------------------------------------------------------------------
C4_Safety ==
    /\ deadline # "fired" => (tlAttempts = 0 /\ TimeLimitFramesSent = {})
    /\ deadline = "fired" =>
        /\ SessionState \in {"Closing", "Closed"}
        /\ tlAttempts = (IF hpc = "timeout_notify" THEN 0 ELSE 1)
        /\ Cardinality(TimeLimitFramesSent) <= tlAttempts
        /\ (tlAttempts = 1 /\ ~clientGone) =>
               Cardinality(TimeLimitFramesSent) = 1
        /\ SessionState = "Closed" => wsState = "closed"

\* C4: the safety part in every state, and once the deadline has fired the
\* session reaches Closed with the transport closed
C4_DeadlineNotifiesOnceThenCloses ==
    /\ []C4_Safety
    /\ (deadline = "fired") ~> (SessionState = "Closed" /\ wsState = "closed")

\* C4: a session closed by the deadline, its time-limit frame delivered
C4_Witness ==
    /\ deadline = "fired"
    /\ SessionState = "Closed"
    /\ wsState = "closed"
    /\ Cardinality(TimeLimitFramesSent) = 1

\* ------------------------------------------------------------------------
\* C5: whenever the session is Closed, none of the five pumps (ingress,
\* audio-forward, control-forward, receive, egress) is still running.
\* ------------------------------------------------------------------------
C5_NoPumpRunsAfterClosed ==
    SessionState = "Closed" =>
        /\ ~Running(ipc)
        /\ ~Running(apc)
        /\ ~Running(tpc)
        /\ ~Running(rpc)
        /\ ~EgressRunning

\* ------------------------------------------------------------------------
\* C6 (as stated): after an exception in the receive pump, once the session
\* is Closed the client has been sent exactly one error frame.  Stated for
\* the runs in which run_session took the error event for writing.
\* ------------------------------------------------------------------------
ErrorFramesSent == {i \in DOMAIN sent : sent[i].body = "error"}

ErrorEventsQueued == {i \in DOMAIN event_queue : event_queue[i].t = "error"}

C6_Safety ==
    /\ Cardinality(ErrorEventsQueued) + Cardinality(UpstreamErrorFramesSent) <= 1
    /\ rpc # "failed" =>
        (ErrorEventsQueued = {} /\ UpstreamErrorFramesSent = {})
    /\ (rpc = "failed" /\ spc = "done") =>
        /\ Cardinality(UpstreamErrorFramesSent) = 1
        /\ ErrorEventsQueued = {}
        /\ ~Running(apc) /\ ~Running(tpc)
        /\ SessionState \in {"Closing", "Closed"}
        /\ SessionState = "Closed" => (wsState = "closed" /\ ~Running(ipc))

C7_TranslationNeverAborts ==
    (setup_config \in SetupNames /\ agen # "none") =>
        /\ connectAttempts = 1
        /\ config.outT = SetupObject(setup_config).outT

\* ------------------------------------------------------------------------
\* C8: once the ingress pump has observed the client's disconnect during
\* Active, the session leaves Active by the server's own steps: no upstream
\* event, failed write or deadline is needed.
\* ------------------------------------------------------------------------
C8_DisconnectStartsTeardown ==
    (ipc = "disconnected" /\ SessionState = "Active")
        ~> (SessionState \in {"Closing", "Closed"})

\* ------------------------------------------------------------------------
\* C9: a text frame received during Active that is malformed JSON, JSON
\* that is no object, or an object of an unrecognized or ill-typed shape is
\* dropped: the ingress pump enqueues nothing and keeps reading.
\* ------------------------------------------------------------------------
Unrecognized(f) ==
    /\ f.kind = "text"
    /\ ~(/\ f.json = "object"
         /\ f.key \in {"clientContent", "toolResponse"}
         /\ f.val = "dict")

C9_UnrecognizedFrameDropped ==
    [][(/\ ipc = "running"
        /\ inbox # <<>>
        /\ Unrecognized(Head(inbox))
        /\ framesRead' = framesRead + 1)
       => (ipc' = "running" /\ UNCHANGED queueVars)]_vars

\* ------------------------------------------------------------------------
\* C10: the ingress pump does not exist in Connecting and AwaitingSetup;
\* until it is spawned the only client frame consumed is the one the setup
\* step received, and nothing is on the audio or control queue.
\* ------------------------------------------------------------------------
C10_NoIngressBeforeSetup ==
    /\ SessionState \in {"Connecting", "AwaitingSetup"} =>
        /\ ipc = "none"
        /\ framesRead = 0
        /\ audio_input_queue = <<>>
        /\ text_input_queue = <<>>
    /\ ipc = "none" =>
        /\ framesRead = (IF firstFrame = NoFrame THEN 0 ELSE 1)
        /\ audio_input_queue = <<>>
        /\ text_input_queue = <<>>

\* C10: the client has sent its setup and an audio frame; neither is
\* consumed while the endpoint is still in AwaitingSetup
C10_Witness ==
    /\ SessionState = "AwaitingSetup"
    /\ Len(inbox) = 2
    /\ inbox[1].key = "setup"
    /\ inbox[2].kind = "bytes"
    /\ framesRead = 0
    /\ ipc = "none"

\* ------------------------------------------------------------------------
\* C11: once a session that had an upstream session handle is Closed, the
\* handle has been released exactly once and the client transport has been
\* closed exactly once, whichever suspension point the cancellation met.
\* ------------------------------------------------------------------------
HandleAcquired == upstream \in {"open", "broken", "released"}

C11_ReleasedAndClosedOnce ==
    (SessionState = "Closed" /\ HandleAcquired) =>
        /\ releases = 1
        /\ upstream = "released"
        /\ closeCalls = 1

\* ------------------------------------------------------------------------
\* C12: the teardown of a session never raises and always completes: in
\* Closing at the finally block the step to Closed is enabled, the endpoint
\* never ends by an exception, and at Closed the transport is closed by one
\* close() call and the ingress task is not running, also when the client
\* had already left or the ingress task had already finished.
\* ------------------------------------------------------------------------
C12_TeardownCompletes ==
    setupResult = "proceed" =>
        /\ hpc # "crashed"
        /\ hpc = "finally" => ENABLED Teardown
        /\ hpc = "done" =>
            /\ wsState = "closed"
            /\ closeCalls = 1
            /\ ~Running(ipc)

\* C12: a session closed after the client had left and the ingress task
\* had finished by itself
C12_Witness ==
    /\ hpc = "done"
    /\ setupResult = "proceed"
    /\ clientGone
    /\ ipc = "disconnected"
    /\ closeCalls = 1

\* ------------------------------------------------------------------------
\* Helpers of the claims about the streams
\* ------------------------------------------------------------------------
IsPrefix(a, b) == Len(a) <= Len(b) /\ SubSeq(b, 1, Len(a)) = a

RECURSIVE Repeat(_, _)
Repeat(x, n) == IF n = 0 THEN <<>> ELSE <<x>> \o Repeat(x, n - 1)

FramesOf(events) == [i \in DOMAIN events |-> ClientFrameOf(events[i])]

\* the events run_session holds or will be given, in the order it gets them
PendingEvents ==
    (IF spc = "sending" THEN <<curEvent>> ELSE <<>>) \o event_queue

\* the egress pump is in its loop, past the connect
EgressLive == spc \in {"sending", "waiting"}

\* ------------------------------------------------------------------------
\* C13: for each upstream message the receive pump enqueues its events in
\* the order audio parts, input transcription, output transcription,
\* turn-complete, interruption, tool calls, and the client receives the
\* frames in that order: the frames delivered are a prefix of the frames
\* due in that order for the messages delivered so far, and together with
\* the events still pending they are exactly those frames.
\* ------------------------------------------------------------------------
\* the frames due for message m, number d, in the detection order
DueFrames(m, d) ==
    Repeat(OutFrame("bytes", "audio", "na", d), m.audio)
    \o Repeat(OutFrame("json", "inputTranscription", "na", d),
              IF m.inT THEN 1 ELSE 0)
    \o Repeat(OutFrame("json", "outputTranscription", "na", d),
              IF m.outT THEN 1 ELSE 0)
    \o Repeat(OutFrame("json", "turnComplete", "na", 0),
              IF m.tc THEN 1 ELSE 0)
    \o Repeat(OutFrame("json", "interrupted", "na", 0),
              IF m.intr THEN 1 ELSE 0)
    \o Repeat(OutFrame("json", "toolCall", "na", d),
              IF m.tool THEN 1 ELSE 0)

RECURSIVE DueFramesFrom(_, _)
DueFramesFrom(log, d) ==
    IF d > Len(log) THEN <<>>
    ELSE DueFrames(log[d], d) \o DueFramesFrom(log, d + 1)

MessageFrame(fr) == fr.body \notin {"setupComplete", "error"}

MessageEvent(e) == e.t \notin {"setup_complete", "error", "None", "none"}

C13_DetectionOrder ==
    LET due == DueFramesFrom(upLog, 1)
        delivered == SelectSeq(sent, MessageFrame)
        pending == FramesOf(SelectSeq(PendingEvents, MessageEvent))
    IN /\ IsPrefix(delivered, due)
       /\ EgressLive => delivered \o pending = due

\* C13: the six frames of a message with every substructure have reached
\* the client
C13_Witness ==
    /\ upLog = <<FullMessage>>
    /\ SelectSeq(sent, MessageFrame) = DueFrames(FullMessage, 1)

\* ------------------------------------------------------------------------
\* C14: FIFO order within each queue.  Frame numbers are the order in
\* which the client sent the frames, so: the audio chunks forwarded, then
\* queued, then still in the transport carry increasing numbers; so do the
\* control messages; and the frames written to the client, followed by the
\* events pending, are the events in the order they were enqueued.
\* ------------------------------------------------------------------------
Increasing(ids) == \A i, j \in DOMAIN ids : i < j => ids[i] < ids[j]

IsAudioCall(c) == c.call = "send_realtime_input"

IsControlCall(c) == c.call \in {"send", "send_tool_response"}

\* the number of the client frame a control call or a queued item is from
CallFrame(c) == IF c.call = "send" THEN c.data ELSE c.data[1].id

ItemFrame(it) ==
    IF it.type = "client_content" THEN it.turns ELSE it.fr.items[1].id

IsAudioFrame(f) == f.kind = "bytes"

IsControlFrame(f) == f.kind = "text"

FrameIds(fs) == [i \in DOMAIN fs |-> fs[i].id]

AudioPath ==
    LET calls == SelectSeq(upCalls, IsAudioCall) IN
    [i \in DOMAIN calls |-> calls[i].data]
    \o audio_input_queue
    \o FrameIds(SelectSeq(inbox, IsAudioFrame))

ControlPath ==
    LET calls == SelectSeq(upCalls, IsControlCall) IN
    [i \in DOMAIN calls |-> CallFrame(calls[i])]
    \o [i \in DOMAIN text_input_queue |-> ItemFrame(text_input_queue[i])]
    \o FrameIds(SelectSeq(inbox, IsControlFrame))

RECURSIVE EventsFrom(_, _)
EventsFrom(log, d) ==
    IF d > Len(log) THEN <<>>
    ELSE EventsOf(log[d], d) \o EventsFrom(log, d + 1)

\* everything put on event_queue so far, in put order
Enqueued ==
    IF receiveCalls = 0 THEN <<>>
    ELSE <<Event("setup_complete", 0)>>
         \o EventsFrom(upLog, 1)
         \o (IF rpc = "failed" THEN <<Event("error", 0)>> ELSE <<>>)

NotSessionEnded(e) == e # SessionEnded

C14_FifoWithinQueues ==
    /\ Increasing(AudioPath)
    /\ Increasing(ControlPath)
    /\ IsPrefix(sent, FramesOf(Enqueued))
    /\ EgressLive =>
        sent \o FramesOf(SelectSeq(PendingEvents, NotSessionEnded))
            = FramesOf(Enqueued)

\* C14: two audio chunks forwarded in the order sent, with the frames of a
\* whole message delivered
C14_Witness ==
    /\ SelectSeq(upCalls, IsAudioCall) = <<AudioCall(2), AudioCall(3)>>
    /\ Len(sent) >= 3

\* ------------------------------------------------------------------------
\* C15: a toolResponse whose functionResponses is a single object is
\* forwarded as a one-element list holding that object is: the step of the
\* control-forward pump that takes it from the queue makes exactly one
\* tool-result call with the one record of that object, and the pump goes
\* on running.
\* ------------------------------------------------------------------------
\* the call due for the one response object r
OneRecordCall(r) ==
    UpCall("send_tool_response",
           <<[name |-> r.name, id |-> r.id,
              response |-> IF r.response = "absent" THEN "result_ok"
                           ELSE r.response]>>,
           FALSE, 1)

OneResponse(it) ==
    /\ it.type = "tool_response"
    /\ it.fr.shape \in {"dict", "list"}
    /\ Len(it.fr.items) = 1

C15_SingleObjectAsOneElementList ==
    [][(/\ tpc = "running"
        /\ upstream = "open"
        /\ text_input_queue # <<>>
        /\ OneResponse(Head(text_input_queue))
        /\ text_input_queue' = Tail(text_input_queue))
       => (/\ upCalls' = Append(upCalls,
                                OneRecordCall(Head(text_input_queue).fr.items[1]))
           /\ tpc' = "running")]_vars

\* C15: the message forwarded last held a single object and the last call
\* is the one-record tool-result call
C15_Witness ==
    /\ tpc = "running"
    /\ msg.type = "tool_response"
    /\ msg.fr.shape = "dict"
    /\ upCalls # <<>>
    /\ upCalls[Len(upCalls)] = OneRecordCall(msg.fr.items[1])

\* ------------------------------------------------------------------------
\* C16: a clientContent frame with turnComplete true read by the ingress
\* pump becomes one control message, which the control-forward pump turns
\* into one content call carrying the frame's text with the end-of-turn
\* flag set; at no time is the turn in two places of the path.
\* ------------------------------------------------------------------------
FinalTurnFrame(f) ==
    /\ f.kind = "text"
    /\ f.json = "object"
    /\ f.key = "clientContent"
    /\ f.val = "dict"
    /\ f.arg = "final"

\* where the turn of frame n is: in the transport, queued or forwarded
TurnPlaces(n) ==
    Cardinality({i \in DOMAIN inbox :
                    FinalTurnFrame(inbox[i]) /\ inbox[i].id = n})
    + Cardinality({i \in DOMAIN text_input_queue :
                    /\ text_input_queue[i].type = "client_content"
                    /\ text_input_queue[i].turns = n})
    + Cardinality({i \in DOMAIN upCalls :
                    upCalls[i].call = "send" /\ upCalls[i].data = n})

C16_FinalTurnForwardedOnce ==
    /\ [](\A n \in 1..framesSent : TurnPlaces(n) <= 1)
    /\ [][(/\ ipc = "running"
            /\ inbox # <<>>
            /\ FinalTurnFrame(Head(inbox))
            /\ framesRead' = framesRead + 1)
           => (/\ text_input_queue' =
                    Append(text_input_queue,
                           ControlItem("client_content", Head(inbox).id,
                                       TRUE, NoResponses))
               /\ ipc' = "running")]_vars
    /\ [][(/\ tpc = "running"
            /\ upstream = "open"
            /\ text_input_queue # <<>>
            /\ Head(text_input_queue).type = "client_content"
            /\ Head(text_input_queue).turnComplete
            /\ text_input_queue' = Tail(text_input_queue))
           => (/\ upCalls' =
                    Append(upCalls,
                           UpCall("send", Head(text_input_queue).turns,
                                  TRUE, 0))
               /\ tpc' = "running")]_vars

\* C16: the final turn of frame 2 has been forwarded, with the flag set
C16_Witness ==
    /\ upCalls # <<>>
    /\ upCalls[1] = UpCall("send", 2, TRUE, 0)
    /\ TurnPlaces(2) = 1

\* ------------------------------------------------------------------------
\* C17: after the setup {"setup": {"outputAudioTranscription": {}}}, the
\* output-transcription events of the messages delivered reach the client
\* as frames {"serverContent": {"outputTranscription": {"text": t}}} with
\* the text of their message, one frame per event and in order; while the
\* egress pump is idle in Active none is missing.
\* ------------------------------------------------------------------------
TranscriptFrame(d) == OutFrame("json", "outputTranscription", "na", d)

IsTranscriptFrame(fr) == fr.body = "outputTranscription"

RECURSIVE TranscriptsDue(_, _)
TranscriptsDue(log, d) ==
    IF d > Len(log) THEN <<>>
    ELSE (IF log[d].outT THEN <<TranscriptFrame(d)>> ELSE <<>>)
         \o TranscriptsDue(log, d + 1)

C17_OutputTranscriptionDelivered ==
    LET delivered == SelectSeq(sent, IsTranscriptFrame) IN
    /\ IsPrefix(delivered, TranscriptsDue(upLog, 1))
    /\ (SessionState = "Active" /\ spc = "waiting" /\ event_queue = <<>>)
           => delivered = TranscriptsDue(upLog, 1)

\* C17: after one audio frame from the client, the transcription of the
\* first message is the last frame the client received
C17_Witness ==
    /\ setup_config = "transcribe"
    /\ upCalls = <<AudioCall(2)>>
    /\ upLog # <<>>
    /\ upLog[1].outT
    /\ sent # <<>>
    /\ sent[Len(sent)] = TranscriptFrame(1)
    /\ SessionState = "Active"

\* ------------------------------------------------------------------------
\* C18: with two sessions running concurrently, each session owns its
\* queues, its upstream handle and its transport: whatever is in the
\* queues of a session or was forwarded to its upstream handle comes from
\* its own client, and whatever is on its event queue or was written to
\* its client comes from its own upstream session.
\* ------------------------------------------------------------------------
CallOrigin(c) == IF IsAudioCall(c) THEN c.data ELSE CallFrame(c)

\* events and frames that carry the number of their upstream message
NumberedEvent(e) ==
    e.t \in {"audio", "inputTranscription", "outputTranscription",
             "toolCall"}

NumberedFrame(fr) ==
    fr.body \in {"audio", "inputTranscription", "outputTranscription",
                 "toolCall"}

OwnsAll(s, ids) == \A i \in DOMAIN ids : OwnerOf(ids[i]) = s

C18_NoCrossTalk ==
    \A s \in Sessions :
       LET h == sessions[s]
           events == SelectSeq(h.event_queue, NumberedEvent)
           frames == SelectSeq(h.sent, NumberedFrame) IN
       /\ OwnsAll(s, h.audio_input_queue)
       /\ OwnsAll(s, [i \in DOMAIN h.text_input_queue |->
                          ItemFrame(h.text_input_queue[i])])
       /\ OwnsAll(s, [i \in DOMAIN h.upCalls |-> CallOrigin(h.upCalls[i])])
       /\ OwnsAll(s, [i \in DOMAIN events |-> events[i].d])
       /\ OwnsAll(s, [i \in DOMAIN frames |-> frames[i].d])

\* C18: both sessions have forwarded a frame of their client and written
\* the events of an upstream message to it
C18_Witness ==
    /\ sessions["A"].upCalls = <<AudioCall(Tag("A", 1))>>
    /\ sessions["B"].upCalls = <<UpCall("send", Tag("B", 1), TRUE, 0)>>
    /\ \A s \in Sessions :
          /\ Len(sessions[s].upLog) = 1
          /\ sessions[s].event_queue = <<>>
          /\ Len(sessions[s].sent) = 3

\* ------------------------------------------------------------------------
\* C19: a connection performs at most one upstream connect; once the
\* upstream stream has ended or failed, connect is not called again and no
\* connect is pending, whatever the client goes on sending.
\* ------------------------------------------------------------------------
UpstreamOver ==
    \/ upstream \in {"broken", "failed", "released"}
    \/ receiveCalls > 1

C19_SingleConnect ==
    /\ connectAttempts <= 1
    /\ UpstreamOver =>
        /\ connectAttempts = 1
        /\ upstream # "connecting"
        /\ spc \notin {"init", "connecting"}

\* C19: the upstream session has failed, the client has streamed all its
\* frames and the ingress pump has read them; still one connect
C19_Witness ==
    /\ upstream = "broken"
    /\ rpc = "failed"
    /\ framesSent = 1 + MaxStream
    /\ framesRead = framesSent
    /\ connectAttempts = 1

\* ------------------------------------------------------------------------
\* C20: at the step in which the upstream event stream is exhausted without
\* an exception, the receive pump enqueues SessionEnded and stops: the task
\* is over and session.receive() is not called again.
\* ------------------------------------------------------------------------
C20_ExhaustionEndsReceivePump ==
    [][ReceiveExhausted =>
        (/\ rpc' # "running"
         /\ event_queue' = Append(event_queue, SessionEnded)
         /\ receiveCalls' = receiveCalls)]_vars

\* ------------------------------------------------------------------------
\* C21: when the receive pump terminates it enqueues exactly one terminal
\* event, Error if it stopped on an exception and SessionEnded otherwise,
\* never both, and no event follows the terminal one on the event queue.
\* ------------------------------------------------------------------------
TerminalEvent(e) == e.t \in {"error", "None"}

\* the queues the step in which the pump ends may have put on: the event
\* queue, or what is left of it when the same step took its head
QueueLeft ==
    {event_queue}
    \cup (IF event_queue = <<>> THEN {} ELSE {Tail(event_queue)})

C21_OneTerminalEvent ==
    /\ [][(rpc = "running" /\ rpc' # "running")
          => \E q \in QueueLeft :
                event_queue' =
                    Append(q, IF rpc' = "failed" THEN Event("error", 0)
                              ELSE SessionEnded)]_vars
    /\ [](rpc \in {"failed", "cancelled"}
            => \A i \in DOMAIN event_queue :
                  TerminalEvent(event_queue[i]) => i = Len(event_queue))

\* ------------------------------------------------------------------------
\* C22: every session that becomes Active eventually reaches Closed, given
\* that the deadline timer eventually fires: whatever the upstream session
\* and the client do or fail to do, and wherever the pumps are blocked, the
\* session does not stay in Active or Closing forever.
\* ------------------------------------------------------------------------
C22_ActiveReachesClosed ==
    (SessionState \in {"Active", "Closing"}) ~> (SessionState = "Closed")

\* C22: a session closed by the deadline alone: the upstream session has
\* connected and stayed silent, the client has sent nothing but its setup
\* and is still there, every pump was blocked
C22_Witness ==
    /\ SessionState = "Closed"
    /\ deadline = "fired"
    /\ connectAttempts = 1
    /\ upMsgs = 0
    /\ framesSent = 1
    /\ ~clientGone
    /\ rpc = "cancelled"
    /\ apc = "cancelled"
    /\ tpc = "cancelled"
    /\ ipc = "cancelled"

\* ------------------------------------------------------------------------
\* C23: the audio-forward and the control-forward pump run until the
\* supervisor cancels them: while the session is Active neither of them
\* has stopped for another reason than a cancellation, so that an item put
\* on the audio or the control queue during Active still has a pump to
\* forward it upstream.
\* ------------------------------------------------------------------------
C23_ForwardPumpsRunUntilCancelled ==
    SessionState = "Active" => (apc # "failed" /\ tpc # "failed")

\* ------------------------------------------------------------------------
\* C24: the egress pump keeps running after it has delivered an Error
\* event: the write of the error frame leaves it waiting for, or holding,
\* the next event.  Of its own it stops only when it dequeues SessionEnded
\* or when a write to the client fails; the one other end is the
\* cancellation by the supervisor when the deadline expires.
\* ------------------------------------------------------------------------
EgressRuns(pc) == pc \in {"sending", "waiting"}

\* the step takes SessionEnded from the head of the event queue (a receive
\* pump that is cancelled by the same step puts its own None)
DequeuesSessionEnded ==
    /\ event_queue # <<>>
    /\ Head(event_queue) = SessionEnded
    /\ event_queue' = IF rpc = "running"
                      THEN Append(Tail(event_queue), SessionEnded)
                      ELSE Tail(event_queue)

C25_OneDeadline ==
    /\ [](SessionState = "Active"
            => (deadline = "armed" /\ ENABLED DeadlineFire))
    /\ [][deadline' # deadline
          => \/ /\ deadline = "unarmed" /\ deadline' = "armed"
                /\ SessionState = "AwaitingSetup"
                /\ SessionState' = "Active"
             \/ /\ deadline = "armed" /\ deadline' = "fired"
                /\ SessionState = "Active"
                /\ SessionState' = "Closing"]_vars

\* C25: the deadline has expired in a session in which a client frame was
\* read and forwarded while an upstream message was being written to the
\* client
C25_Witness ==
    /\ deadline = "fired"
    /\ hpc = "timeout_notify"
    /\ framesRead = 2
    /\ upCalls # <<>>
    /\ upMsgs = 1
    /\ Len(sent) >= 2
    /\ agen = "orphaned"

\* ------------------------------------------------------------------------
\* C26: when the tools list of the setup holds several well-formed tool
\* blocks, every function declaration of every block is in the upstream
\* configuration, in the order given by the client: a later block does not
\* replace an earlier one.
\* ------------------------------------------------------------------------
WellFormed(tc) == \A i \in DOMAIN tc : tc[i].t = "fds"

\* the declarations of all blocks, in the client's order
RECURSIVE Declarations(_)
Declarations(tc) ==
    IF tc = <<>> THEN <<>> ELSE Head(tc).fds \o Declarations(Tail(tc))

C26_EveryDeclarationConfigured ==
    (cfgpc = "connect" /\ WellFormed(tool_config))
        => config_args.tools = Declarations(tool_config)

\* ------------------------------------------------------------------------
\* C27: in every session the first server-to-client frame is
\* {"setupComplete": true}; it is sent only after the upstream session has
\* connected, and at most once per session.
\* ------------------------------------------------------------------------
SetupCompleteFrame == ClientFrameOf(Event("setup_complete", 0))

SetupCompleteFramesSent == {i \in DOMAIN sent : sent[i] = SetupCompleteFrame}

\* connect() has returned a session
UpstreamConnected == upstream \in {"open", "broken", "released"}

C27_SetupCompleteFirst ==
    /\ sent # <<>> => sent[1] = SetupCompleteFrame
    /\ SetupCompleteFramesSent # {} => UpstreamConnected
    /\ Cardinality(SetupCompleteFramesSent) <= 1

\* ------------------------------------------------------------------------
\* C27 (amended): {"setupComplete": true} is sent only after the upstream
\* session has connected and at most once per session, and it is the first
\* server-to-client frame of every session, except that when the deadline
\* expires before it has been written the time-limit error is the first
\* and only frame.
\* ------------------------------------------------------------------------
C27_SetupCompleteFirstUnlessTimeLimit ==
    /\ sent # <<>> =>
          \/ sent[1] = SetupCompleteFrame
          \/ deadline = "fired" /\ sent = <<TimeLimitFrame>>
    /\ SetupCompleteFramesSent # {} => UpstreamConnected
    /\ Cardinality(SetupCompleteFramesSent) <= 1

\* C27: setupComplete has been written first, the frames of an upstream
\* message after it
C27_Witness ==
    /\ Len(sent) >= 3
    /\ sent[1] = SetupCompleteFrame
    /\ upstream = "open"
    /\ upMsgs = 1

\* ------------------------------------------------------------------------
\* C28: once the session has left Active (SessionEnded consumed, a failed
\* write, or the expiry of the deadline), no upstream-originated event is
\* written to the client any more; the only frame that may still be sent
\* is the single time-limit error, and nothing is sent after the transport
\* has been closed.
\* ------------------------------------------------------------------------
LeftActive ==
    \/ SessionState \in {"Closing", "Closed"}
    \/ spc \in {"exiting", "done", "raised", "cancelled"}

C28_NoEventAfterActive ==
    /\ [][LeftActive
          => \/ sent' = sent
             \/ /\ deadline = "fired"
                /\ wsState = "open"
                /\ TimeLimitFramesSent = {}
                /\ sent' = Append(sent, TimeLimitFrame)]_vars
    /\ [][wsState = "closed" => sent' = sent]_vars

\* C28: a session closed by the deadline with events of the upstream
\* session still on the event queue: the last frame written is the
\* time-limit error
C28_Witness ==
    /\ SessionState = "Closed"
    /\ wsState = "closed"
    /\ deadline = "fired"
    /\ \E i \in DOMAIN event_queue : MessageEvent(event_queue[i])
    /\ sent # <<>>
    /\ sent[Len(sent)] = TimeLimitFrame
    /\ Cardinality(TimeLimitFramesSent) = 1

\* ------------------------------------------------------------------------
\* C29: audio and control frames the client sends after the setup
\* handshake but before the upstream session has connected are queued, not
\* dropped, and are forwarded upstream in arrival order once the connection
\* is established: until then every such frame the ingress pump reads is
\* appended to its queue, nothing leaves the queues and no call is made;
\* from then on the calls follow the order of the frames.
\* ------------------------------------------------------------------------
NotYetConnected == spc \in {"init", "connecting"}

\* the ingress pump reads the frame at the head of the transport
IngressReads ==
    /\ ipc = "running"
    /\ inbox # <<>>
    /\ framesRead' = framesRead + 1

ControlFrame(f) ==
    /\ f.kind = "text"
    /\ f.json = "object"
    /\ f.key \in {"clientContent", "toolResponse"}
    /\ f.val = "dict"

C29_QueuedUntilConnected ==
    /\ [][NotYetConnected
          => /\ IsPrefix(audio_input_queue, audio_input_queue')
             /\ IsPrefix(text_input_queue, text_input_queue')
             /\ upCalls' = upCalls]_vars
    /\ [][(NotYetConnected /\ IngressReads /\ Head(inbox).kind = "bytes")
          => audio_input_queue' =
                Append(audio_input_queue, Head(inbox).id)]_vars
    /\ [][(NotYetConnected /\ IngressReads /\ ControlFrame(Head(inbox)))
          => /\ Len(text_input_queue') = Len(text_input_queue) + 1
             /\ ItemFrame(text_input_queue'[Len(text_input_queue')])
                    = Head(inbox).id]_vars
    /\ [](Increasing(AudioPath) /\ Increasing(ControlPath))

\* C29: the connect is pending; the audio frame and the content turn the
\* client sent after its setup are on their queues
C29_Witness ==
    /\ spc = "connecting"
    /\ upstream = "connecting"
    /\ audio_input_queue = <<2>>
    /\ text_input_queue =
          <<ControlItem("client_content", 3, TRUE, NoResponses)>>
    /\ inbox = <<>>
    /\ upCalls = <<>>

\* ------------------------------------------------------------------------
\* C30: under concurrent callers of the certificate cache at most one
\* certificate fetch is in flight at a time; a caller that gets the lock
\* after another caller has refreshed the cache returns the refreshed
\* certificates without fetching again; and no caller returns an empty
\* certificate set.
\* ------------------------------------------------------------------------
Fetching == {t \in Callers : cpc[t] = "line51"}

====
